---- MODULE Spec2Model ----
(***************************************************************************)
(* A model of the aqueduct-py client core: the Device base class           *)
(* (devices/base/obj.py), the PinchValve override (devices/valve/pinch.py) *)
(* and the PID parameter model (core/pid.py).                              *)
(*                                                                         *)
(* The module holds several specifications over one set of variables:      *)
(*   SpecSocket  callers of Device.get / Device.get_live on a shared       *)
(*               socket guarded by one lock                                *)
(*   SpecGuard   the same callers under a fair scheduler, on a socket whose  *)
(*               send can fail                                             *)
(*   SpecPid     the operations of one PidController and their update      *)
(*               round trips                                               *)
(*   SpecRoundTrip  a Pid rebuilt from its own serialization                *)
(*   SpecSchedule  the gain schedules of one Pid, their serialization and    *)
(*               the server's selection among them                         *)
(*   SpecCommands  one Device object and the command array of its recipe   *)
(*   SpecSim     one Device object and its simulation injection calls      *)
(*   SpecPump    one PeristalticPump: its command array, stop() and        *)
(*               Status.reverse                                            *)
(*   SpecDevice  one Device object and every operation of the base class   *)
(* Each specification leaves the variables of the other parts unchanged.   *)
(***************************************************************************)
EXTENDS Integers, Sequences, FiniteSets, TLC

VARIABLES
    \* ---- Device.get / Device.get_live on a shared socket ----
    pc,         \* per caller: position in get()/get_live()
    op,         \* per caller: "get" or "get_live"
    dev,        \* per caller: the identity of the Device object it calls
    i,          \* per caller: the loop counter i of get()/get_live()
    sends,      \* per caller: number of socket.send calls made by this call
    excs,       \* per caller: attempts of this call that ended in the except branch
    lock,       \* the shared threading.Lock: its holder, or NoThread
    wire,       \* requests sent whose reply has not been read yet (FIFO)
    data,       \* per caller: the frame returned by the last socket.recv
    lastRx,     \* per caller: what the reply read in the current attempt was
    result,     \* per caller: the value returned by get()/get_live()
    \* ---- PidController ----
    pid,        \* PidController.pid: the local Pid object
    pidAq,      \* PidController._aq is set (assign was called)
    pidId,      \* PidController._id: the server-assigned id, or NoId
    pidFixed,   \* PidController.name, .input, .output
    pidDeleted, \* the controller was deleted on the server: its id is invalid
    pidOp,      \* the last operation called on the controller (or "Pid": the constructor)
    pidArgs,    \* the arguments of that call
    pidBefore,  \* the local Pid when the last operation built its envelope
    pidSent,    \* the update envelopes the last operation sent
    pidReply,   \* the response the last operation's round trip yielded
    pidOut,     \* how the last operation ended: "ok", "warned" or the exception
    pidJson,    \* what the last Pid.serialize call returned, through JSON
    selection,  \* the server's last gain-schedule selection: the current values
                \* and the position of the active schedule (0: none)
    \* ---- one Device object, its command array and simulation calls ----
    dClass,         \* the class the device was constructed as
    dBase,          \* Device._device_id, ._user_id, ._interface
    dLen,           \* Device._len: the channel count
    command_delay,  \* Device._command_delay, in hundredths of a second
    has_sim_values, \* Device._has_sim_values
    simSetTrue,     \* the has_sim_values setter was called with True since construction
    commands,       \* the command array of the recipe (0-based slot k is commands[k+1])
    dOp,            \* the last operation called on the device
    dArgs,          \* its index and command arguments (set_command)
    dBefore,        \* the command array when it was called
    dOut,           \* how it ended: "ok", or the exception it raised
    dResult,        \* the value it returned
    dSent           \* the payloads it handed to the transport

vars == <<pc, op, dev, i, sends, excs, lock, wire, data, lastRx, result,
          pid, pidAq, pidId, pidFixed, pidDeleted, pidOp, pidArgs, pidBefore,
          pidSent, pidReply, pidOut, pidJson, selection,
          dClass, dBase, dLen, command_delay, has_sim_values, simSetTrue, commands,
          dOp, dArgs, dBefore, dOut, dResult, dSent>>

deviceVars == <<dClass, dBase, dLen, command_delay, has_sim_values, simSetTrue,
                commands, dOp, dArgs, dBefore, dOut, dResult, dSent>>

pidVars == <<pid, pidAq, pidId, pidFixed, pidDeleted, pidOp, pidArgs, pidBefore,
             pidSent, pidReply, pidOut, pidJson, selection>>

socketVars == <<pc, op, dev, i, sends, excs, lock, wire, data, lastRx, result>>

----------------------------------------------------------------------------
(* Bounds *)

\* At most MaxExcepts attempts of one call end in the except branch (a read
\* timeout or a JSON decode failure).
MaxExcepts == 1

\* Devices have 1..MaxLen channels.
MaxLen == 3

\* A Pid is given at most MaxSchedules schedules.
MaxSchedules == 2

----------------------------------------------------------------------------
(* Constants of the program *)

\* aqueduct.core.socket_constants.SOCKET_TX_ATTEMPTS: the attempt budget.
SOCKET_TX_ATTEMPTS == 3

\* Events.GET_DEVICE, Events.GET_DEVICE_LIVE, Events.DEVICE_ACTION
GET_DEVICE == "get_device"
GET_DEVICE_LIVE == "get_device_live"
DEVICE_ACTION == "device_action"

Null == "null"

Threads == {"t1", "t2"}
NoThread == "nobody"

DeviceIds == {"dev1", "dev2"}
UserIds == {"u1", "u2"}

\* The Device objects of the recipe: constructed once from the discovery call,
\* all with the session's user id.
Devices == {[device_id |-> d, user_id |-> "u1"] : d \in DeviceIds}

\* The devices a caller may poll. Device ids are interchangeable, so the first
\* caller is taken to poll dev1; the other polls the same device or another one.
DevicesOf(t) == IF t = "t1" THEN {[device_id |-> "dev1", user_id |-> "u1"]} ELSE Devices

NullBase == [device_id |-> Null, user_id |-> Null]
Idents == [device_id : DeviceIds, user_id : UserIds]

----------------------------------------------------------------------------
(* Frames read from the socket *)

\* What the bytes of one recv can be, as far as get()/get_live() look at them:
\*   kind "garbage"  bytes json.loads rejects
\*   kind "notpair"  a JSON value without element 0 (an object, an empty array)
\*   kind "pair"     [event, payload]; payload is a JSON string whose body is
\*       "bad"     not JSON
\*       "empty"   {}
\*       "nobase"  {"device": {}}
\*       "device"  {"device": {"base": {device_id, user_id}, ...}}
\*       "live"    {device_id, user_id, live}
\* A frame of another event carries body "empty": its payload is never read.
FrameShapes ==
    {[kind |-> k, event |-> Null, body |-> Null, base |-> NullBase] :
        k \in {"garbage", "notpair"}}
    \cup {[kind |-> "pair", event |-> DEVICE_ACTION, body |-> "empty", base |-> NullBase]}
    \cup {[kind |-> "pair", event |-> e, body |-> b, base |-> NullBase] :
            e \in {GET_DEVICE, GET_DEVICE_LIVE}, b \in {"bad", "empty", "nobase"}}
    \cup {[kind |-> "pair", event |-> GET_DEVICE, body |-> "device", base |-> b] :
            b \in Idents}
    \cup {[kind |-> "pair", event |-> GET_DEVICE_LIVE, body |-> "live", base |-> b] :
            b \in Idents}

NoTag == [thr |-> NoThread, n |-> 0]
NoFrame == [kind |-> Null, event |-> Null, body |-> Null, base |-> NullBase,
            req |-> NoTag]

\* The frame of shape s that the server wrote in answer to request tag. The
\* snapshot it carries is the one the server took for that request, so the tag
\* also names the frame's content.
MkFrame(s, tag) ==
    [kind |-> s.kind, event |-> s.event, body |-> s.body, base |-> s.base,
     req |-> tag]

\* The values get()/get_live() return.
Pending == [kind |-> "pending", base |-> NullBase, snap |-> NoTag]
None == [kind |-> "none", base |-> NullBase, snap |-> NoTag]

----------------------------------------------------------------------------
(* Device.is_for_me, Device.get, Device.get_live *)

\* is_for_me comparing the device id only.
is_for_me_DeviceIdOnly(d, base) ==
    base.device_id = d.device_id

\* dict.get on the base section: a missing key reads as None.
is_for_me(d, base) ==
    /\ base.device_id = d.device_id
    /\ base.user_id = d.user_id

ExpectedEvent(o) == IF o = "get" THEN GET_DEVICE ELSE GET_DEVICE_LIVE

\* What the body of one loop iteration does with the received frame f:
\*   "except"   JSONDecodeError caught: continue, i is not incremented
\*   "raise"    an exception that the except clause does not catch
\*   "return"   the reply is accepted
\*   "next"     fall through to i += 1
DecideGet(d, f) ==
    IF f.kind = "garbage" THEN "except"                  \* json.loads(data)
    ELSE IF f.kind = "notpair" THEN "raise"              \* j[0]
    ELSE IF f.event = GET_DEVICE
         THEN IF f.body = "bad" THEN "except"            \* json.loads(j[1])
              ELSE IF f.body \in {"empty", "live"} THEN "raise"   \* None.get("base")
              ELSE IF f.body = "nobase" THEN "raise"     \* is_for_me(None)
              ELSE IF is_for_me(d, f.base) THEN "return" ELSE "next"
         ELSE "next"

DecideGetLive(d, f) ==
    IF f.kind = "garbage" THEN "except"
    ELSE IF f.kind = "notpair" THEN "raise"
    ELSE IF f.event = GET_DEVICE_LIVE
         THEN IF f.body = "bad" THEN "except"
              ELSE IF f.body = "live"
                   THEN IF is_for_me(d, f.base) THEN "return" ELSE "next"
                   ELSE "next"       \* no device_id / user_id key: is_for_me is False
         ELSE "next"

Decide(o, d, f) == IF o = "get" THEN DecideGet(d, f) ELSE DecideGetLive(d, f)

\* The value returned for an accepted frame: the device section for get(),
\* the live section for get_live().
Payload(o, f) ==
    IF o = "get" THEN [kind |-> "device", base |-> f.base, snap |-> f.req]
    ELSE [kind |-> "live", base |-> NullBase, snap |-> f.req]

\* What the reply of shape s is to the caller of o on device d, read off the
\* frame alone: "mine" (the expected event, this device's identity), "foreign"
\* (the expected event, the identity of another device or owner), "other".
Classify(o, d, s) ==
    IF s.kind = "pair" /\ s.event = ExpectedEvent(o) /\ s.base # NullBase
    THEN IF s.base = d THEN "mine" ELSE "foreign"
    ELSE "other"

\* The exchange entered without waiting for the lock.
LockAvailable_NoLock(l) == TRUE

\* `with self._socket_lock`: the lock can be taken when nobody holds it.
LockAvailable(l) == l = NoThread

\* The loop test off by one.
InBudget_OffByOne(n) == n <= SOCKET_TX_ATTEMPTS

\* `while i < SOCKET_TX_ATTEMPTS`
InBudget(n) == n < SOCKET_TX_ATTEMPTS

\* A caller enters get() or get_live() on one of the devices.
Call(t, o, d) ==
    /\ pc[t] = "idle"
    /\ pc' = [pc EXCEPT ![t] = "loop"]
    /\ op' = [op EXCEPT ![t] = o]
    /\ dev' = [dev EXCEPT ![t] = d]
    /\ i' = [i EXCEPT ![t] = 0]
    /\ UNCHANGED <<sends, excs, lock, wire, data, lastRx, result>>
    /\ UNCHANGED <<pidVars, deviceVars>>

\* Loop test true: take the lock, set the timeout, send the request. The server
\* answers requests in the order it reads them, so the reply to this request
\* joins the end of the wire.
Send(t) ==
    /\ pc[t] = "loop"
    /\ InBudget(i[t])
    /\ LockAvailable(lock)
    /\ lock' = t
    /\ sends' = [sends EXCEPT ![t] = @ + 1]
    /\ wire' = Append(wire, [thr |-> t, n |-> sends[t] + 1])
    /\ pc' = [pc EXCEPT ![t] = "sent"]
    /\ lastRx' = [lastRx EXCEPT ![t] = "none"]
    /\ UNCHANGED <<op, dev, i, excs, data, result>>
    /\ UNCHANGED <<pidVars, deviceVars>>

\* Loop test false: the function falls off its end and returns None.
Exhaust(t) ==
    /\ pc[t] = "loop"
    /\ ~InBudget(i[t])
    /\ pc' = [pc EXCEPT ![t] = "done"]
    /\ result' = [result EXCEPT ![t] = None]
    /\ UNCHANGED <<op, dev, i, sends, excs, lock, wire, data, lastRx>>
    /\ UNCHANGED <<pidVars, deviceVars>>

\* recv returns the oldest unread reply, of shape s; the lock is released on
\* leaving `with`, and the rest of the loop body (which touches nothing shared)
\* runs on the frame. The local `data` is dead once the iteration is over, so it
\* is reset on the two paths back to the loop test.
Recv(t, s) ==
    /\ pc[t] = "sent"
    /\ wire # <<>>
    /\ wire' = Tail(wire)
    /\ lock' = NoThread
    /\ lastRx' = [lastRx EXCEPT ![t] = Classify(op[t], dev[t], s)]
    /\ LET f == MkFrame(s, Head(wire))
           r == Decide(op[t], dev[t], f)
       IN  \/ /\ r = "return"
              /\ pc' = [pc EXCEPT ![t] = "done"]
              /\ data' = [data EXCEPT ![t] = f]
              /\ result' = [result EXCEPT ![t] = Payload(op[t], f)]
              /\ UNCHANGED <<i, excs>>
           \/ /\ r = "next"
              /\ i' = [i EXCEPT ![t] = @ + 1]
              /\ pc' = [pc EXCEPT ![t] = "loop"]
              /\ data' = [data EXCEPT ![t] = NoFrame]
              /\ UNCHANGED <<result, excs>>
           \/ /\ r = "except"
              /\ excs[t] < MaxExcepts
              /\ excs' = [excs EXCEPT ![t] = @ + 1]
              /\ pc' = [pc EXCEPT ![t] = "loop"]
              /\ data' = [data EXCEPT ![t] = NoFrame]
              /\ UNCHANGED <<i, result>>
           \/ /\ r = "raise"
              /\ pc' = [pc EXCEPT ![t] = "raised"]
              /\ data' = [data EXCEPT ![t] = MkFrame(s, NoTag)]
              /\ UNCHANGED <<i, result, excs>>
    /\ UNCHANGED <<op, dev, sends>>
    /\ UNCHANGED <<pidVars, deviceVars>>

\* recv timing out without the lock being released.
RecvTimeout_KeepsLock(t) ==
    /\ pc[t] = "sent"
    /\ excs[t] < MaxExcepts
    /\ excs' = [excs EXCEPT ![t] = @ + 1]
    /\ pc' = [pc EXCEPT ![t] = "loop"]
    /\ UNCHANGED <<op, dev, i, sends, lock, wire, data, lastRx, result>>
    /\ UNCHANGED <<pidVars, deviceVars>>

\* No reply arrives within the timeout: recv raises socket.timeout, the lock is
\* released and the except clause continues. The replies still on the wire
\* arrive later.
RecvTimeout(t) ==
    /\ pc[t] = "sent"
    /\ excs[t] < MaxExcepts
    /\ lock' = NoThread
    /\ excs' = [excs EXCEPT ![t] = @ + 1]
    /\ pc' = [pc EXCEPT ![t] = "loop"]
    /\ UNCHANGED <<op, dev, i, sends, wire, data, lastRx, result>>
    /\ UNCHANGED <<pidVars, deviceVars>>

\* Loop test true, lock taken, and socket.send raises an OSError (the peer is
\* gone): nothing reaches the wire, `with` releases the lock on the way out and
\* the exception, which the except clause does not name, leaves the function.
SendFails(t) ==
    /\ pc[t] = "loop"
    /\ InBudget(i[t])
    /\ LockAvailable(lock)
    /\ lock' = NoThread
    /\ sends' = [sends EXCEPT ![t] = @ + 1]
    /\ pc' = [pc EXCEPT ![t] = "raised"]
    /\ lastRx' = [lastRx EXCEPT ![t] = "none"]
    /\ UNCHANGED <<op, dev, i, excs, wire, data, result>>
    /\ UNCHANGED <<pidVars, deviceVars>>

----------------------------------------------------------------------------
(* Python and JSON values *)

\* A scalar is [ty, v]: ty is the Python type ("none", "bool", "int", "float"),
\* or "absent" for a keyword or attribute that is not there; v is the number
\* (0/1 for a bool).
NoneS == [ty |-> "none", v |-> 0]
AbsentS == [ty |-> "absent", v |-> 0]
PyFloat(n) == [ty |-> "float", v |-> n]
PyInt(n) == [ty |-> "int", v |-> n]
PyBool(b) == [ty |-> "bool", v |-> IF b THEN 1 ELSE 0]

\* A pair is [ty, lo, hi]: ty is "tuple", "list", "none" or "absent".
Pair(ty, lo, hi) == [ty |-> ty, lo |-> lo, hi |-> hi]
NonePair == Pair("none", NoneS, NoneS)
AbsentPair == Pair("absent", NoneS, NoneS)

\* json.dumps followed by json.loads: a tuple comes back as a list.
JsonPair(p) == IF p.ty = "tuple" THEN Pair("list", p.lo, p.hi) ELSE p

----------------------------------------------------------------------------
(* Pid, Schedule (core/pid.py) *)

\* The attributes of a Controller: the gains and shape parameters (float) and
\* the optional limits (float or None).
FloatKeys == {"bias", "kp", "ki", "kd", "linearity", "beta", "setpoint_range"}
LimitKeys == {"p_limit", "i_limit", "d_limit", "delta_limit", "integral_valid",
              "dead_zone"}

\* The attributes of a ControllerSchedule: optional (low, high) intervals.
ConstraintKeys == {"process", "error", "control"}

\* Controller._init_defaults
ControllerDefaults ==
    [k \in FloatKeys \cup LimitKeys |->
        IF k \in {"linearity", "beta", "setpoint_range"} THEN PyFloat(1)
        ELSE IF k \in FloatKeys THEN PyFloat(0)
        ELSE NoneS]

\* The keywords of Controller() and of ControllerSchedule() with none given.
NoControllerKw == [k \in FloatKeys \cup LimitKeys |-> AbsentS]
NoScheduleKw == [k \in ConstraintKeys |-> AbsentPair]

\* Controller.__init__(**kwargs): a keyword is set when isinstance holds, a
\* float for the gains, a float or None for the limits.
ControllerInit(kw) ==
    [k \in FloatKeys \cup LimitKeys |->
        IF kw[k].ty = "float" \/ (k \in LimitKeys /\ kw[k].ty = "none")
        THEN kw[k]
        ELSE ControllerDefaults[k]]

\* ControllerSchedule.__init__(**kwargs): _init_defaults sets the three
\* intervals to None; a keyword is set when it is a tuple or None.
ControllerScheduleInit(kw) ==
    [k \in ConstraintKeys |->
        IF kw[k].ty \in {"tuple", "none"} THEN kw[k] ELSE NonePair]

\* Schedule.__init__(controller, schedule): the attributes of the two objects
\* it holds, side by side as Schedule.serialize lays them out.
Schedule(controller, schedule) == controller @@ schedule

\* Schedule(Controller(kp=kp, ki=ki, kd=kd), ControllerSchedule(error=(-50.0, 50.0)))
MkSchedule(kp, ki, kd) ==
    Schedule(ControllerInit([NoControllerKw EXCEPT !.kp = kp, !.ki = ki, !.kd = kd]),
             ControllerScheduleInit(
                 [NoScheduleKw EXCEPT !.error = Pair("tuple", PyFloat(-50), PyFloat(50))]))

ScheduleA == MkSchedule(PyFloat(1), PyFloat(0), PyFloat(10))

\* Python's truth value of an optional float: None and 0.0 are false.
Truthy(x) == x.ty # "none" /\ x.v # 0

\* `[x, None] if x else [None, True]` in Controller.serialize
LimitEntry(x) ==
    IF Truthy(x) THEN Pair("list", x, NoneS) ELSE Pair("list", NoneS, PyBool(TRUE))

\* Schedule.serialize returning the controller's entries only.
SerializeSchedule_ControllerOnly(e) ==
    [k \in DOMAIN e |->
        IF k \in ConstraintKeys THEN NonePair
        ELSE IF k \in LimitKeys THEN LimitEntry(e[k])
        ELSE e[k]]

\* Schedule.serialize, through JSON: the intervals of the ControllerSchedule
\* (its __dict__) and the entries of Controller.serialize.
SerializeSchedule(e) ==
    [k \in DOMAIN e |->
        IF k \in ConstraintKeys THEN JsonPair(e[k])
        ELSE IF k \in LimitKeys THEN LimitEntry(e[k])
        ELSE e[k]]

\* Pid._init_defaults sets six attributes. Every other name (bias, kp, ki, kd,
\* p_limit, i_limit, d_limit, delta_limits, control_bounds, dead_zone, or a
\* name such as invalid_attribute) is no attribute of a new Pid.
PidDefaults ==
    [enabled |-> PyBool(FALSE),
     update_interval_ms |-> PyInt(1000),
     setpoint |-> PyFloat(0),
     integral_term |-> PyFloat(0),
     schedule |-> <<>>,
     output_limits |-> Pair("tuple", NoneS, NoneS),
     kp |-> AbsentS, ki |-> AbsentS, kd |-> AbsentS, bias |-> AbsentS,
     p_limit |-> AbsentS, i_limit |-> AbsentS, d_limit |-> AbsentS,
     delta_limits |-> AbsentPair, control_bounds |-> AbsentPair,
     dead_zone |-> AbsentPair, invalid_attribute |-> AbsentS]

\* Pid.__init__ setting enabled from the keyword without the isinstance test.
PidInit_NoTypeCheck(kw) ==
    [PidDefaults EXCEPT
        !.setpoint = kw.setpoint,
        !.update_interval_ms =
            IF kw.update_interval_ms.ty = "absent" THEN PyInt(1000)
            ELSE kw.update_interval_ms,
        !.enabled = IF kw.enabled.ty # "absent" THEN kw.enabled ELSE @,
        !.integral_term = IF kw.integral_term.ty = "float" THEN kw.integral_term ELSE @,
        !.output_limits = IF kw.output_limits.ty = "tuple" THEN kw.output_limits ELSE @]

\* Pid.__init__ setting a keyword it does not know as an attribute.
PidInit_KeepUnknown(kw) ==
    [PidDefaults EXCEPT
        !.setpoint = kw.setpoint,
        !.update_interval_ms =
            IF kw.update_interval_ms.ty = "absent" THEN PyInt(1000)
            ELSE kw.update_interval_ms,
        !.enabled = IF kw.enabled.ty = "bool" THEN kw.enabled ELSE @,
        !.integral_term = IF kw.integral_term.ty = "float" THEN kw.integral_term ELSE @,
        !.output_limits = IF kw.output_limits.ty = "tuple" THEN kw.output_limits ELSE @,
        !.invalid_attribute = kw.invalid_attribute]

\* Pid.__init__(setpoint, update_interval_ms=1000, **kwargs) on the keywords
\* kw; a keyword is a scalar, a pair, or for schedule a list, "absent" when not
\* given. setpoint and update_interval_ms are taken as given; of the others
\* only enabled (bool), integral_term (float) and output_limits (tuple) are
\* set, and only when isinstance holds; every other keyword is dropped.
PidInit(kw) ==
    [PidDefaults EXCEPT
        !.setpoint = kw.setpoint,
        !.update_interval_ms =
            IF kw.update_interval_ms.ty = "absent" THEN PyInt(1000)
            ELSE kw.update_interval_ms,
        !.enabled = IF kw.enabled.ty = "bool" THEN kw.enabled ELSE @,
        !.integral_term = IF kw.integral_term.ty = "float" THEN kw.integral_term ELSE @,
        !.output_limits = IF kw.output_limits.ty = "tuple" THEN kw.output_limits ELSE @]

\* Pid.serialize, through JSON: the six serialized fields.
SerializePid(q) ==
    [enabled |-> q.enabled,
     update_interval_ms |-> q.update_interval_ms,
     setpoint |-> q.setpoint,
     integral_term |-> q.integral_term,
     schedule |-> [k \in 1..Len(q.schedule) |-> SerializeSchedule(q.schedule[k])],
     output_limits |-> JsonPair(q.output_limits)]

\* The keywords of Pid(**updated_pid) for a decoded Pid object j.
Keywords(j) ==
    [setpoint |-> j.setpoint,
     update_interval_ms |-> j.update_interval_ms,
     enabled |-> j.enabled,
     integral_term |-> j.integral_term,
     schedule |-> j.schedule,
     output_limits |-> j.output_limits]

\* The keywords of a constructor call Pid(setpoint=100.0) with nothing else.
KwAbsent ==
    [setpoint |-> PyFloat(100),
     update_interval_ms |-> AbsentS, enabled |-> AbsentS, integral_term |-> AbsentS,
     schedule |-> <<>>, output_limits |-> AbsentPair,
     bias |-> AbsentS, kp |-> AbsentS, ki |-> AbsentS, kd |-> AbsentS,
     p_limit |-> AbsentS, i_limit |-> AbsentS, d_limit |-> AbsentS,
     delta_limits |-> AbsentPair, control_bounds |-> AbsentPair,
     dead_zone |-> AbsentPair, invalid_attribute |-> AbsentS]

\* The keywords of tests/core/test_pid.py (test_custom_values); fractions are
\* written in tenths (kp = 1.0 is 10, ki = 0.5 is 5).
KwCustom ==
    [setpoint |-> PyFloat(500),
     update_interval_ms |-> PyInt(500), enabled |-> AbsentS,
     integral_term |-> PyFloat(25),
     schedule |-> <<>>, output_limits |-> Pair("tuple", PyFloat(-100), PyFloat(100)),
     bias |-> PyFloat(100), kp |-> PyFloat(10), ki |-> PyFloat(5), kd |-> PyFloat(2),
     p_limit |-> PyFloat(100), i_limit |-> PyFloat(50), d_limit |-> PyFloat(20),
     delta_limits |-> Pair("tuple", PyFloat(50), PyFloat(20)),
     control_bounds |-> Pair("tuple", PyFloat(0), PyFloat(1000)),
     dead_zone |-> Pair("tuple", PyFloat(1), PyFloat(1)),
     invalid_attribute |-> AbsentS]

\* The keywords C17 names, as test_custom_values passes them.
CustomKeys ==
    {"update_interval_ms", "bias", "kp", "ki", "kd", "p_limit", "i_limit", "d_limit",
     "integral_term", "delta_limits", "control_bounds", "output_limits", "dead_zone"}

\* One keyword and a value for it: the test's values, and values of another
\* type than valid_attributes asks for.
KwOptions ==
    {<<k, KwCustom[k]>> : k \in CustomKeys}
    \cup {<<"enabled", PyBool(TRUE)>>, <<"enabled", PyBool(FALSE)>>, <<"enabled", PyInt(1)>>,
          <<"integral_term", PyInt(2)>>,
          <<"setpoint", PyInt(100)>>, <<"update_interval_ms", PyFloat(5)>>,
          <<"output_limits", Pair("list", PyFloat(0), PyFloat(10))>>,
          <<"invalid_attribute", PyFloat(5)>>}

\* The constructor calls of the model: none, one or two keywords besides the
\* setpoint, or all the keywords of test_custom_values.
Kwargs ==
    {KwAbsent, KwCustom}
    \cup {[KwAbsent EXCEPT ![o[1]] = o[2]] : o \in KwOptions}
    \cup {[KwAbsent EXCEPT ![oq[1][1]] = oq[1][2], ![oq[2][1]] = oq[2][2]] :
            oq \in {x \in KwOptions \X KwOptions : x[1][1] # x[2][1]}}

----------------------------------------------------------------------------
(* PidController (core/pid.py) *)

NoId == "None"
ControllerIds == {"7"}

\* The Pid objects the server returns, in serialized form.
ServerPids ==
    {[enabled |-> e,
      update_interval_ms |-> PyInt(1000),
      setpoint |-> PyFloat(5),
      integral_term |-> it,
      schedule |-> so[1],
      output_limits |-> so[2]] :
        e \in {PyBool(FALSE), PyBool(TRUE)},
        it \in {PyFloat(0), PyFloat(2)},
        so \in {<< <<>>, Pair("list", NoneS, NoneS) >>,
                << <<SerializeSchedule(MkSchedule(PyFloat(30), PyFloat(0), PyFloat(10)))>>,
                   Pair("list", PyFloat(0), PyFloat(10)) >>}}

NoPid == SerializePid(PidDefaults)

\* What the round trip can yield as `response`:
\*   kind "none"    None: the attempts were exhausted
\*   kind "badstr"  a string that is not JSON
\*   kind "nonobj"  a value (or a string decoding to one) without .get: a list
\*   kind "obj"     an object (or a string decoding to one); controllers is
\*                  "absent", a "list", or a "map" in which this controller's
\*                  id is "absent", maps to an entry without pid ("nopid"), or
\*                  to an entry with a pid object ("pid")
\* The pid field is the pid object of the map's entry: this controller's when
\* mine is "pid", another controller's (if any) when mine is "absent".
Response(kind, controllers, mine, j) ==
    [kind |-> kind, controllers |-> controllers, mine |-> mine, pid |-> j]

Responses ==
    {Response(k, "absent", "absent", NoPid) : k \in {"none", "badstr", "nonobj"}}
    \cup {Response("obj", c, "absent", NoPid) : c \in {"absent", "list", "map"}}
    \cup {Response("obj", "map", "nopid", NoPid)}
    \cup {Response("obj", "map", "pid", j) : j \in ServerPids}
    \cup {Response("obj", "map", "absent", j) :
            j \in {x \in ServerPids : x.enabled = PyBool(TRUE) /\ x.integral_term = PyFloat(2)}}

NoResponse == Response("unsent", "absent", "absent", NoPid)

\* The reply of a server that applied the update as sent: it returns the Pid of
\* the envelope.
Echo == Response("echo", "map", "pid", NoPid)

\* The arguments of the PidController operations; None when not passed.
NoPidArgs ==
    [setpoint |-> NoneS, clear |-> FALSE,
     kp |-> NoneS, ki |-> NoneS, kd |-> NoneS, bias |-> NoneS]

\* PidController.serialize_update
serialize_update(id, q) == [id |-> id, pid |-> SerializePid(q)]

\* The part of _update after the round trip: the outcome and the local Pid.
\*   response None, a list            AttributeError on response.get
\*   a string that is not JSON        JSONDecodeError, caught: a warning
\*   controllers a list               AttributeError on controllers.get
\*   no entry, or an entry without pid   nothing changes
\*   an entry with a pid              self.pid = Pid(**updated_pid)
UpdateOutcome(r) ==
    IF r.kind = "none" THEN "AttributeError"
    ELSE IF r.kind = "badstr" THEN "warned"
    ELSE IF r.kind = "nonobj" THEN "AttributeError"
    ELSE IF r.controllers = "list" THEN "AttributeError"
    ELSE "ok"

\* The local Pid replaced by the pid of whatever entry the map holds.
UpdatedPid_AnyEntry(q, r) ==
    IF r.kind = "obj" /\ r.controllers = "map" /\ r.mine \in {"pid", "absent"}
    THEN PidInit(Keywords(r.pid))
    ELSE q

\* `controllers.get(str(self._id))`, then `.get("pid")`: both must be there.
UpdatedPid(q, r) ==
    IF r.kind = "obj" /\ r.controllers = "map" /\ r.mine = "pid"
    THEN PidInit(Keywords(r.pid))
    ELSE q

\* PidController._update with the local Pid already mutated to q, and r the
\* response of the round trip. Without a client (`self._aq` is None) the call
\* of send_and_wait_for_rx raises before anything is sent.
Update(name, args, q, r) ==
    LET reply == IF r = Echo THEN Response("obj", "map", "pid", SerializePid(q)) ELSE r IN
    /\ pidOp' = name
    /\ pidArgs' = args
    /\ pidBefore' = q
    /\ IF pidAq
       THEN /\ pidSent' = <<serialize_update(pidId, q)>>
            /\ pidReply' = reply
            /\ pidOut' = UpdateOutcome(reply)
            /\ pid' = UpdatedPid(q, reply)
       ELSE /\ pidSent' = <<>>
            /\ pidReply' = NoResponse
            /\ pidOut' = "AttributeError"
            /\ pid' = q
    /\ UNCHANGED <<pidAq, pidId, pidFixed, pidJson, selection, pidDeleted>>
    /\ UNCHANGED <<socketVars, deviceVars>>

\* The responses an operation can meet: none is drawn when nothing is sent; a
\* reply holds a pid for this controller only while the server knows its id.
ResponsesNow ==
    IF ~pidAq THEN {NoResponse}
    ELSE IF pidDeleted \/ pidId = NoId THEN {r \in Responses : r.mine # "pid"}
    ELSE Responses \cup {Echo}

\* assign registering the controller with the server as it binds the client.
assign_Registers ==
    /\ pidAq' = TRUE
    /\ pidOp' = "assign"
    /\ pidArgs' = NoPidArgs
    /\ pidSent' = <<serialize_update(pidId, pid)>>
    /\ UNCHANGED <<pid, pidId, pidFixed, pidJson, selection, pidDeleted, pidBefore, pidReply, pidOut>>
    /\ UNCHANGED <<socketVars, deviceVars>>

assign ==
    /\ pidAq' = TRUE
    /\ pidOp' = "assign"
    /\ pidArgs' = NoPidArgs
    /\ UNCHANGED <<pid, pidId, pidFixed, pidJson, selection, pidDeleted, pidBefore, pidSent, pidReply, pidOut>>
    /\ UNCHANGED <<socketVars, deviceVars>>

\* Called when the server has registered the controller under id k.
set_id(k) ==
    /\ pidId' = k
    /\ pidDeleted' = FALSE
    /\ pidOp' = "set_id"
    /\ pidArgs' = NoPidArgs
    /\ UNCHANGED <<pid, pidAq, pidFixed, pidJson, selection, pidBefore, pidSent, pidReply, pidOut>>
    /\ UNCHANGED <<socketVars, deviceVars>>

\* change_setpoint zeroing the integral term whatever clear_integral is.
change_setpoint_AlwaysClear(setpoint, clear, r) ==
    Update("change_setpoint",
           [NoPidArgs EXCEPT !.setpoint = setpoint, !.clear = clear],
           [pid EXCEPT !.setpoint = setpoint, !.integral_term = PyFloat(0)],
           r)

change_setpoint(setpoint, clear, r) ==
    Update("change_setpoint",
           [NoPidArgs EXCEPT !.setpoint = setpoint, !.clear = clear],
           [pid EXCEPT !.setpoint = setpoint,
                       !.integral_term = IF clear THEN PyFloat(0) ELSE @],
           r)

\* The round trip made before the flag is set.
enable_UpdateFirst(r) == Update("enable", NoPidArgs, pid, r)

enable(r) == Update("enable", NoPidArgs, [pid EXCEPT !.enabled = PyBool(TRUE)], r)

disable(r) == Update("disable", NoPidArgs, [pid EXCEPT !.enabled = PyBool(FALSE)], r)

change_parameters(kp, ki, kd, bias, r) ==
    Update("change_parameters",
           [NoPidArgs EXCEPT !.kp = kp, !.ki = ki, !.kd = kd, !.bias = bias],
           [pid EXCEPT !.kp = IF kp.ty # "none" THEN kp ELSE @,
                       !.ki = IF ki.ty # "none" THEN ki ELSE @,
                       !.kd = IF kd.ty # "none" THEN kd ELSE @,
                       !.bias = IF bias.ty # "none" THEN bias ELSE @],
           r)

clear_integral(r) ==
    Update("clear_integral", NoPidArgs, [pid EXCEPT !.integral_term = PyFloat(0)], r)

\* The controller is deleted on the server. PidController has no delete method
\* and no field that records a deletion: the object is left as it is.
delete ==
    /\ pidAq /\ pidId # NoId /\ ~pidDeleted
    /\ pidDeleted' = TRUE
    /\ pidOp' = "delete"
    /\ pidArgs' = NoPidArgs
    /\ UNCHANGED <<pid, pidAq, pidId, pidFixed, pidJson, selection, pidBefore, pidSent, pidReply, pidOut>>
    /\ UNCHANGED <<socketVars, deviceVars>>

\* The Pid objects a recipe builds before it hands them to a PidController:
\* Pid(setpoint), optionally with one schedule added and output limits given.
InitialPids ==
    {[PidInit([setpoint |-> PyFloat(1), update_interval_ms |-> AbsentS,
               enabled |-> AbsentS, integral_term |-> AbsentS,
               schedule |-> <<>>, output_limits |-> so[2]])
        EXCEPT !.schedule = so[1]] :
        so \in {<< <<>>, AbsentPair >>,
                << <<ScheduleA>>, Pair("tuple", PyFloat(0), PyFloat(10)) >>}}

Setpoints == {PyFloat(7)}
Gains == {NoneS, PyFloat(30)}

\* PidController.__init__: the name and the two accessors it is given.
Fixed == [name |-> "fill", input |-> "weight:0", output |-> "rate:0"]

\* Nothing serialized, nothing selected yet.
NoJson == [schedule |-> <<>>, made |-> FALSE]
NoSelection == [process |-> 0, error |-> 0, control |-> 0, active |-> 0]

InitPidFrom(pids) ==
    /\ pidJson = NoJson
    /\ selection = NoSelection
    /\ pid \in pids
    /\ pidAq = FALSE
    /\ pidId = NoId
    /\ pidFixed = Fixed
    /\ pidDeleted = FALSE
    /\ pidOp = "none"
    /\ pidArgs = NoPidArgs
    /\ pidBefore = pid
    /\ pidSent = <<>>
    /\ pidReply = NoResponse
    /\ pidOut = "none"

InitPid == InitPidFrom(InitialPids)

\* pid = Pid(**kw): the recipe constructs a Pid.
Construct(kw) ==
    /\ pid' = PidInit(kw)
    /\ pidOp' = "Pid"
    /\ pidArgs' = kw
    /\ pidOut' = "ok"
    /\ UNCHANGED <<pidAq, pidId, pidFixed, pidJson, selection, pidDeleted, pidBefore, pidSent, pidReply>>
    /\ UNCHANGED <<socketVars, deviceVars>>

\* The keywords Controller() and ControllerSchedule() are called with: floats
\* as declared, and an int for a gain, an int for a limit, None for a limit, a
\* list for an interval.
ControllerKwargs ==
    {NoControllerKw,
     [NoControllerKw EXCEPT !.kp = PyFloat(2), !.p_limit = PyFloat(5)],
     [NoControllerKw EXCEPT !.kp = PyInt(2), !.bias = PyFloat(1)],
     [NoControllerKw EXCEPT !.ki = PyFloat(3), !.d_limit = PyInt(5), !.i_limit = NoneS]}

ScheduleKwargs ==
    {NoScheduleKw,
     [NoScheduleKw EXCEPT !.error = Pair("tuple", PyFloat(-50), PyFloat(50))],
     [NoScheduleKw EXCEPT !.process = Pair("list", PyFloat(0), PyFloat(10)),
                          !.control = NonePair]}

\* pid = Pid(100.0); pid.add_schedule(Schedule(Controller(**ckw),
\* ControllerSchedule(**skw))): the recipe builds a gain set and its schedule.
ConstructSchedule(ckw, skw) ==
    /\ pid' = [PidInit(KwAbsent) EXCEPT
                  !.schedule = <<Schedule(ControllerInit(ckw), ControllerScheduleInit(skw))>>]
    /\ pidOp' = "Schedule"
    /\ pidArgs' = [controller |-> ckw, schedule |-> skw]
    /\ pidOut' = "ok"
    /\ UNCHANGED <<pidAq, pidId, pidFixed, pidJson, selection, pidDeleted, pidBefore, pidSent, pidReply>>
    /\ UNCHANGED <<socketVars, deviceVars>>

NextPidInit ==
    \/ \E kw \in Kwargs : Construct(kw)
    \/ \E ckw \in ControllerKwargs, skw \in ScheduleKwargs : ConstructSchedule(ckw, skw)

\* The Schedule objects a recipe builds:
\*   ScheduleA                                       error in (-50, 50)
\*   Schedule(Controller(kp=2.0))                    unconstrained
\*   Schedule(Controller(p_limit=0.0, i_limit=5.0, dead_zone=0.0,
\*                       integral_valid=None),
\*            ControllerSchedule(process=(0.0, 10.0), error=(-50.0, 50.0)))
\*   Schedule(Controller(d_limit=5, delta_limit=2.0),
\*            ControllerSchedule(control=(0.0, 100.0)))
Schedules ==
    {ScheduleA,
     Schedule(ControllerInit([NoControllerKw EXCEPT !.kp = PyFloat(2)]),
              ControllerScheduleInit(NoScheduleKw)),
     Schedule(ControllerInit([NoControllerKw EXCEPT
                  !.p_limit = PyFloat(0), !.i_limit = PyFloat(5),
                  !.dead_zone = PyFloat(0), !.integral_valid = NoneS]),
              ControllerScheduleInit([NoScheduleKw EXCEPT
                  !.process = Pair("tuple", PyFloat(0), PyFloat(10)),
                  !.error = Pair("tuple", PyFloat(-50), PyFloat(50))])),
     Schedule(ControllerInit([NoControllerKw EXCEPT
                  !.d_limit = PyInt(5), !.delta_limit = PyFloat(2)]),
              ControllerScheduleInit([NoScheduleKw EXCEPT
                  !.control = Pair("tuple", PyFloat(0), PyFloat(100))]))}

\* Pid.add_schedule putting the schedule in front.
add_schedule_Prepend(e) ==
    /\ Len(pid.schedule) < MaxSchedules
    /\ pid' = [pid EXCEPT !.schedule = <<e>> \o @]
    /\ pidOp' = "add_schedule"
    /\ pidArgs' = [schedule |-> e]
    /\ pidOut' = "ok"
    /\ UNCHANGED <<pidAq, pidId, pidFixed, pidJson, selection, pidDeleted, pidBefore,
                   pidSent, pidReply>>
    /\ UNCHANGED <<socketVars, deviceVars>>

\* Pid.add_schedule: self.schedule.append(schedule)
add_schedule(e) ==
    /\ Len(pid.schedule) < MaxSchedules
    /\ pid' = [pid EXCEPT !.schedule = Append(@, e)]
    /\ pidOp' = "add_schedule"
    /\ pidArgs' = [schedule |-> e]
    /\ pidOut' = "ok"
    /\ UNCHANGED <<pidAq, pidId, pidFixed, pidJson, selection, pidDeleted, pidBefore,
                   pidSent, pidReply>>
    /\ UNCHANGED <<socketVars, deviceVars>>

\* Pid.serialize, through json.dumps: the schedule list of the result.
Serialize ==
    /\ pidJson' = [schedule |-> SerializePid(pid).schedule, made |-> TRUE]
    /\ pidOp' = "serialize"
    /\ pidArgs' = NoPidArgs
    /\ pidOut' = "ok"
    /\ UNCHANGED <<pid, pidAq, pidId, pidFixed, selection, pidDeleted, pidBefore,
                   pidSent, pidReply>>
    /\ UNCHANGED <<socketVars, deviceVars>>

\* The current process value, error and control output the server selects on.
Currents ==
    {[process |-> c[1], error |-> c[2], control |-> c[3]] :
        c \in {<<5, 0, 50>>, <<20, 0, 50>>, <<5, 1000, 50>>, <<5, 0, 200>>,
               <<20, 1000, 200>>}}

\* A serialized interval holds the value v; null holds every value.
Holds(p, v) == p.ty = "none" \/ (p.lo.v <= v /\ v <= p.hi.v)

\* The server's selection on the serialized schedule list: the position of
\* the first entry all of whose intervals hold the current values, 0 if none.
ActiveSchedule(list, cur) ==
    LET M == {k \in 1..Len(list) : \A c \in ConstraintKeys : Holds(list[k][c], cur[c])}
    IN  IF M = {} THEN 0 ELSE CHOOSE k \in M : \A j \in M : k <= j

\* The server, holding the Pid as the client serialized it, selects the
\* active schedule for the current values.
Select(cur) ==
    /\ selection' = [process |-> cur.process, error |-> cur.error,
                     control |-> cur.control,
                     active |-> ActiveSchedule(SerializePid(pid).schedule, cur)]
    /\ pidOp' = "select"
    /\ pidArgs' = NoPidArgs
    /\ pidOut' = "ok"
    /\ UNCHANGED <<pid, pidAq, pidId, pidFixed, pidJson, pidDeleted, pidBefore,
                   pidSent, pidReply>>
    /\ UNCHANGED <<socketVars, deviceVars>>

\* Pid objects as a recipe constructs them: Pid(1.0) with enabled,
\* integral_term and output_limits given or left out.
RoundTripPids ==
    {PidInit([setpoint |-> PyFloat(1), update_interval_ms |-> AbsentS,
              enabled |-> e, integral_term |-> it,
              schedule |-> <<>>, output_limits |-> ol]) :
        e \in {AbsentS, PyBool(TRUE)},
        it \in {AbsentS, PyFloat(2)},
        ol \in {AbsentPair, Pair("tuple", PyFloat(0), PyFloat(10))}}

\* p = Pid(**p.serialize()): the serialized form, through JSON, handed back to
\* the constructor as keywords.
RoundTrip ==
    /\ pid' = PidInit(Keywords(SerializePid(pid)))
    /\ pidBefore' = pid
    /\ pidOp' = "Pid(**serialize)"
    /\ pidArgs' = NoPidArgs
    /\ pidOut' = "ok"
    /\ UNCHANGED <<pidAq, pidId, pidFixed, pidJson, selection, pidDeleted, pidSent,
                   pidReply>>
    /\ UNCHANGED <<socketVars, deviceVars>>

NextRoundTrip ==
    \/ \E e \in Schedules : add_schedule(e)
    \/ RoundTrip

NextSchedule ==
    \/ \E e \in Schedules : add_schedule(e)
    \/ Serialize
    \/ \E cur \in Currents : Select(cur)

NextPid ==
    \/ assign
    \/ \E k \in ControllerIds : set_id(k)
    \/ \E v \in Setpoints, c \in BOOLEAN, r \in ResponsesNow : change_setpoint(v, c, r)
    \/ \E r \in ResponsesNow : enable(r)
    \/ \E r \in ResponsesNow : disable(r)
    \/ \E kp \in Gains, kd \in Gains, r \in ResponsesNow :
           change_parameters(kp, NoneS, kd, NoneS, r)
    \/ \E r \in ResponsesNow : clear_integral(r)
    \/ delete

----------------------------------------------------------------------------
(* Device: command arrays and simulation injection (devices/base/obj.py) *)

\* The classes of src/ that construct a Device.
Classes == {"Device", "PinchValve", "PeristalticPump", "PressureTransducer",
            "PhProbe", "OpticalDensityProbe"}

\* The subclasses whose constructor ends with `self.has_sim_values = True`.
SimClasses == {"PressureTransducer", "PhProbe", "OpticalDensityProbe"}

\* Device.__init__ sets _has_sim_values = False; the subclass constructor runs
\* after it.
InitialSimFlag(cls) == cls \in SimClasses

\* Command objects; None is NoneCmd.
NoneCmd == "None"
Cmds == {"c1", "c2"}

\* make_stop_command returning a StopCommand with the default stop value.
make_stop_command_Default == "c2"

\* PeristalticPump.make_stop_command: StopCommand(stop=1)
make_stop_command == "StopCommand(stop=1)"

\* Command.to_command: a StartCommand (c1) gives its tuple, a StopCommand
\* gives self.stop, which is 0 for StopCommand() (c2) and the keyword's value
\* for StopCommand(stop=1).
to_command(c) ==
    IF c = "c1" THEN "(mode, direction, units, rate, None, None)"
    ELSE IF c = "c2" THEN "0"
    ELSE "1"

\* map_commands leaving out the empty slots.
map_commands_SkipNone(cs) ==
    LET F[k \in 0..Len(cs)] ==
            IF k = 0 THEN <<>>
            ELSE IF cs[k] # NoneCmd THEN Append(F[k - 1], to_command(cs[k]))
            ELSE F[k - 1]
    IN  F[Len(cs)]

\* Device.map_commands: [c.to_command() if c is not None else None for c in commands]
map_commands(cs) ==
    [k \in 1..Len(cs) |-> IF cs[k] # NoneCmd THEN to_command(cs[k]) ELSE NoneCmd]

\* Interface: the simulator, or a hardware bus.
Interfaces == {"Sim", "Can"}

\* Device.__init__: the command delay is 0.0 on the simulator, 0.01 otherwise.
InitialDelay(interface) == IF interface = "Sim" THEN 0 ELSE 1

\* The value an operation returns: None, or a tuple or list of items.
NoResult == [ty |-> "none", items |-> <<>>]
Result(ty, items) == [ty |-> ty, items |-> items]

\* Device.make_commands: self.len * [None]
make_commands(n) == [k \in 1..n |-> NoneCmd]

\* `commands[index] = command` on a Python list: a negative index counts from
\* the end, an index outside -len..len-1 raises IndexError.
ListAssign(cs, index, command) ==
    IF 0 <= index /\ index < Len(cs)
    THEN [out |-> "ok", cs |-> [cs EXCEPT ![index + 1] = command]]
    ELSE IF index < 0 /\ -Len(cs) <= index
    THEN [out |-> "ok", cs |-> [cs EXCEPT ![Len(cs) + index + 1] = command]]
    ELSE [out |-> "IndexError", cs |-> cs]

\* Device.set_command
Device_set_command(cs, index, command) ==
    IF index < Len(cs)
    THEN ListAssign(cs, index, command)
    ELSE [out |-> "Warning", cs |-> cs]

\* PinchValve.set_command
PinchValve_set_command(cs, index, command) ==
    IF index < Len(cs)
    THEN ListAssign(cs, index, command)
    ELSE [out |-> "Warning", cs |-> cs]

\* Method resolution: PinchValve overrides set_command.
SetCommandOf(cls, cs, index, command) ==
    IF cls = "PinchValve" THEN PinchValve_set_command(cs, index, command)
    ELSE Device_set_command(cs, index, command)

\* An optional array argument: None, or a list of numbers and Nones.
NoneArr == [ty |-> "none", items |-> <<>>]
List(items) == [ty |-> "list", items |-> items]

\* What get() or get_live() handed back inside the calling operation:
\*   ty "none"       None: the attempts were exhausted
\*   ty "raise"      an exception escaped get()/get_live()
\*   ty "list"       get_live(): the live snapshot, a list of per-channel dicts
\*   ty "dict"       get(): the device dict; items is its stat or config list
\*   ty "nosection"  get(): a device dict without that section
Reply(ty, items) == [ty |-> ty, items |-> items]
NoneReply == Reply("none", <<>>)
RaiseReply == Reply("raise", <<>>)

\* CommandPayload.__init__
CommandPayload(user_id, device_id, action, command, record) ==
    [user_id |-> user_id, device_id |-> device_id, action |-> action,
     command |-> command, record |-> record]

NoPayload == CommandPayload(Null, Null, Null, Null, NoneS)

\* The arguments of the last call: index and command (set_command); values,
\* roc, noise and scale (the simulation calls); keys and cast (the
\* projections) and the reply they got from get()/get_live(); the payload
\* (send_command), or action, command and record (to_payload, update_record).
NoArgs == [index |-> 0, command |-> NoneCmd,
           values |-> NoneArr, roc |-> NoneArr, noise |-> NoneArr, scale |-> NoneS,
           keys |-> <<>>, cast |-> "None", reply |-> NoneReply,
           payload |-> NoPayload]

\* The record flag omitted whenever it is false.
to_dict_TruthyRecord(p) ==
    IF p.record.ty # "none" /\ p.record.v # 0 THEN p ELSE [p EXCEPT !.record = AbsentS]

\* CommandPayload.to_dict: the record key is there when record is not None.
to_dict(p) ==
    IF p.record.ty # "none" THEN p ELSE [p EXCEPT !.record = AbsentS]

\* Device.to_payload
to_payload(b, action, command, record) ==
    CommandPayload(b.user_id, b.device_id, action, command, record)

\* Device.generate_action_payload: user_id, device_id and action None.
generate_action_payload(b) ==
    CommandPayload(b.user_id, b.device_id, "None", "absent", AbsentS)

CLEAR_DEVICE_RECORDABLE == "clear_device_recordable"

\* The message handed to send_and_wait_for_rx: [event, payload].
Message(event, d) ==
    [event |-> event, user_id |-> d.user_id, device_id |-> d.device_id,
     action |-> d.action, command |-> d.command, record |-> d.record]

\* Device.send_command on a CommandPayload
send_command(p) == <<Message(DEVICE_ACTION, to_dict(p))>>

\* The recipe takes a fresh command array.
MakeCommands ==
    /\ commands' = make_commands(dLen)
    /\ dOp' = "make_commands"
    /\ dArgs' = NoArgs
    /\ dBefore' = commands
    /\ dOut' = "ok"
    /\ dSent' = <<>>
    /\ dResult' = NoResult
    /\ UNCHANGED <<dClass, dBase, command_delay, dLen, has_sim_values, simSetTrue>>
    /\ UNCHANGED <<socketVars, pidVars>>

\* The recipe maps the command array for transmission.
MapCommands ==
    /\ dOp' = "map_commands"
    /\ dArgs' = NoArgs
    /\ dBefore' = commands
    /\ dOut' = "ok"
    /\ dResult' = Result("list", map_commands(commands))
    /\ dSent' = <<>>
    /\ UNCHANGED <<dClass, dBase, command_delay, dLen, has_sim_values, simSetTrue,
                   commands>>
    /\ UNCHANGED <<socketVars, pidVars>>

SetCommand(index, command) ==
    LET r == SetCommandOf(dClass, commands, index, command) IN
    /\ commands' = r.cs
    /\ dOp' = "set_command"
    /\ dArgs' = [NoArgs EXCEPT !.index = index, !.command = command]
    /\ dBefore' = commands
    /\ dOut' = r.out
    /\ dSent' = <<>>
    /\ dResult' = NoResult
    /\ UNCHANGED <<dClass, dBase, command_delay, dLen, has_sim_values, simSetTrue>>
    /\ UNCHANGED <<socketVars, pidVars>>

\* The has_sim_values setter.
SetHasSimValues(b) ==
    /\ has_sim_values' = b
    /\ simSetTrue' = (simSetTrue \/ b)
    /\ dOp' = "has_sim_values"
    /\ dArgs' = NoArgs
    /\ dBefore' = commands
    /\ dOut' = "ok"
    /\ dSent' = <<>>
    /\ dResult' = NoResult
    /\ UNCHANGED <<dClass, dBase, command_delay, dLen, commands>>
    /\ UNCHANGED <<socketVars, pidVars>>

\* Python's truth value of an array argument: None and the empty list are false.
TruthyArr(a) == a.ty = "list" /\ Len(a.items) > 0

\* x * scale on Python numbers.
Mul(x, scale) ==
    [ty |-> IF x.ty = "float" \/ scale.ty = "float" THEN "float" ELSE "int",
     v |-> x.v * scale.v]

\* The entry tested by its truth value instead of `is not None`.
SimEntry_TruthyEntry(a, k, scale) ==
    IF TruthyArr(a) /\ k < Len(a.items) /\ a.items[k + 1].ty # "none"
       /\ a.items[k + 1].v # 0
    THEN Mul(a.items[k + 1], scale)
    ELSE NoneS

\* `a[k] * scale if a and k < len(a) and a[k] is not None else None`, k 0-based
SimEntry(a, k, scale) ==
    IF TruthyArr(a) /\ k < Len(a.items) /\ a.items[k + 1].ty # "none"
    THEN Mul(a.items[k + 1], scale)
    ELSE NoneS

\* v_t built by looping over the values array instead of the channels.
SimTriples_PerValue(n, values, roc, noise, scale) ==
    [k \in 1..Len(values.items) |-> <<SimEntry(values, k - 1, scale),
                                      SimEntry(roc, k - 1, scale),
                                      SimEntry(noise, k - 1, scale)>>]

\* The list v_t of _set_sim_data: one (value, roc, noise) triple per channel.
SimTriples(n, values, roc, noise, scale) ==
    [k \in 1..n |-> <<SimEntry(values, k - 1, scale),
                      SimEntry(roc, k - 1, scale),
                      SimEntry(noise, k - 1, scale)>>]

\* The simulation-support test left out.
SimGuard_Always(flag) == TRUE

\* `if self.has_sim_values:` in _set_sim_data
SimGuard(flag) == flag

\* Device._set_sim_data: with the flag set, one SetSimValues action is handed
\* to send_command; otherwise Warning is raised.
set_sim_data(name, values, roc, noise, scale) ==
    /\ dOp' = name
    /\ dArgs' = [NoArgs EXCEPT !.values = values, !.roc = roc, !.noise = noise,
                               !.scale = scale]
    /\ dBefore' = commands
    /\ IF SimGuard(has_sim_values)
       THEN /\ dSent' = send_command(
                           to_payload(dBase, "SetSimValues",
                                      SimTriples(dLen, values, roc, noise, scale), NoneS))
            /\ dOut' = "ok"
       ELSE /\ dSent' = <<>>
            /\ dOut' = "Warning"
    /\ dResult' = NoResult
    /\ UNCHANGED <<dClass, dBase, command_delay, dLen, has_sim_values, simSetTrue, commands>>
    /\ UNCHANGED <<socketVars, pidVars>>

\* Device._set_sim_values, _set_sim_rates_of_change, _set_sim_noise
set_sim_values(values, scale) ==
    set_sim_data("_set_sim_values", values, NoneArr, NoneArr, scale)

set_sim_rates_of_change(roc, scale) ==
    set_sim_data("_set_sim_rates_of_change", NoneArr, roc, NoneArr, scale)

set_sim_noise(noise, scale) ==
    set_sim_data("_set_sim_noise", NoneArr, NoneArr, noise, scale)

SimOps == {"_set_sim_data", "_set_sim_values", "_set_sim_rates_of_change",
           "_set_sim_noise"}

\* The array arguments and scales the simulation calls are given.
SimArrays ==
    {NoneArr, List(<<>>), List(<<NoneS, PyInt(0)>>),
     List(<<PyFloat(2), NoneS, PyFloat(0), PyInt(1)>>)}
Scales == {PyFloat(1), PyFloat(3)}

Indices == (0 - (MaxLen + 1)) .. (MaxLen + 2)

\* The command_delay setter.
SetCommandDelay(v) ==
    /\ command_delay' = v
    /\ dOp' = "command_delay"
    /\ dArgs' = NoArgs
    /\ dBefore' = commands
    /\ dOut' = "ok"
    /\ dResult' = NoResult
    /\ dSent' = <<>>
    /\ UNCHANGED <<dClass, dBase, dLen, has_sim_values, simSetTrue, commands>>
    /\ UNCHANGED <<socketVars, pidVars>>

\* An operation that changes nothing of the device: it ends with out, returns
\* res and has handed sent to the transport.
Observe(name, args, out, res, sent) ==
    /\ dOp' = name
    /\ dArgs' = args
    /\ dBefore' = commands
    /\ dOut' = out
    /\ dResult' = res
    /\ dSent' = sent
    /\ UNCHANGED <<dClass, dBase, command_delay, dLen, has_sim_values, simSetTrue,
                   commands>>
    /\ UNCHANGED <<socketVars, pidVars>>

\* The per-channel dict of channel k in a live snapshot: keys "p" and "t", or
\* "p" alone.
LiveEntry(k, full) ==
    [p |-> PyInt(k), t |-> IF full THEN PyFloat(10 + k) ELSE AbsentS]

Keys == {"p", "t"}
KeyTuples == {<<"p">>, <<"t", "p">>}

\* What get_live() can hand back: None, an exception, or a snapshot of 0 to
\* MaxLen channels (whose first entry may lack the key "t").
LiveReplies ==
    {NoneReply, RaiseReply}
    \cup {Reply("list", [k \in 1..n |-> LiveEntry(k, f \/ k # 1)]) :
            n \in 0..MaxLen, f \in BOOLEAN}

\* What get() can hand back, as far as get_stat_and_cast / get_config_and_cast
\* look at it.
GetReplies ==
    {NoneReply, RaiseReply, Reply("nosection", <<>>),
     Reply("dict", <<>>), Reply("dict", <<LiveEntry(1, TRUE), LiveEntry(2, TRUE)>>)}

\* dict.get(key): None for a missing key.
DictGet(e, key) == IF e[key].ty = "absent" THEN NoneS ELSE e[key]

\* The cast argument: None, or float. float(None) raises TypeError.
Casts == {"None", "float"}
TypeErrorS == [ty |-> "TypeError", v |-> 0]
CastValue(cast, x) ==
    IF cast = "None" THEN x
    ELSE IF x.ty = "none" THEN TypeErrorS
    ELSE PyFloat(x.v)

\* cast(**i) of the *_and_cast projections: an object built from the dict.
CastObject(e) == [ty |-> "object", kw |-> e]

\* The outcome of the first iteration of a loop that does not end "ok", if any.
FirstFailure(steps) ==
    LET Bad == {k \in DOMAIN steps : steps[k] # "ok"}
    IN  IF Bad = {} THEN "ok" ELSE steps[CHOOSE k \in Bad : \A j \in Bad : k <= j]

\* extract_live_as_tuple without the cast.
extract_live_as_tuple_NoCast(n, live, key, cast) ==
    IF live.ty = "raise" THEN [out |-> "raise", res |-> NoResult]
    ELSE IF n = 0 THEN [out |-> "ok", res |-> Result("tuple", <<>>)]
    ELSE IF live.ty = "none" THEN [out |-> "TypeError", res |-> NoResult]
    ELSE LET Step(k) == IF k > Len(live.items) THEN "IndexError" ELSE "ok"
             out == FirstFailure([k \in 1..n |-> Step(k)])
         IN  IF out # "ok" THEN [out |-> out, res |-> NoResult]
             ELSE [out |-> "ok",
                   res |-> Result("tuple",
                              [k \in 1..n |-> DictGet(live.items[k], key)])]

\* Device.extract_live_as_tuple on what get_live() handed back: live[i] for
\* i in range(0, self.len), then ipt.get(key), then the cast.
extract_live_as_tuple(n, live, key, cast) ==
    IF live.ty = "raise" THEN [out |-> "raise", res |-> NoResult]
    ELSE IF n = 0 THEN [out |-> "ok", res |-> Result("tuple", <<>>)]
    ELSE IF live.ty = "none" THEN [out |-> "TypeError", res |-> NoResult]
    ELSE LET Step(k) ==
                 IF k > Len(live.items) THEN "IndexError"
                 ELSE IF CastValue(cast, DictGet(live.items[k], key)) = TypeErrorS
                      THEN "TypeError"
                 ELSE "ok"
             out == FirstFailure([k \in 1..n |-> Step(k)])
         IN  IF out # "ok" THEN [out |-> out, res |-> NoResult]
             ELSE [out |-> "ok",
                   res |-> Result("tuple",
                              [k \in 1..n |-> CastValue(cast, DictGet(live.items[k], key))])]

\* Device.extract_live_as_tuple_of_tuples
extract_live_as_tuple_of_tuples(n, live, keys, cast) ==
    IF live.ty = "raise" THEN [out |-> "raise", res |-> NoResult]
    ELSE IF n = 0 THEN [out |-> "ok", res |-> Result("tuple", <<>>)]
    ELSE IF live.ty = "none" THEN [out |-> "TypeError", res |-> NoResult]
    ELSE LET Inner(k) ==
                 [j \in 1..Len(keys) |-> CastValue(cast, DictGet(live.items[k], keys[j]))]
             Step(k) ==
                 IF k > Len(live.items) THEN "IndexError"
                 ELSE IF \E j \in 1..Len(keys) : Inner(k)[j] = TypeErrorS THEN "TypeError"
                 ELSE "ok"
             out == FirstFailure([k \in 1..n |-> Step(k)])
         IN  IF out # "ok" THEN [out |-> out, res |-> NoResult]
             ELSE [out |-> "ok", res |-> Result("tuple", [k \in 1..n |-> Inner(k)])]

\* Device.get_live_and_cast: `for i in self.get_live()`
get_live_and_cast(live) ==
    IF live.ty = "raise" THEN [out |-> "raise", res |-> NoResult]
    ELSE IF live.ty = "none" THEN [out |-> "TypeError", res |-> NoResult]
    ELSE [out |-> "ok",
          res |-> Result("tuple", [k \in 1..Len(live.items) |-> CastObject(live.items[k])])]

\* Device.get_stat_and_cast, get_config_and_cast: v = self.get(), then
\* `for i in v.get("stat")`.
get_and_cast(v) ==
    IF v.ty = "raise" THEN [out |-> "raise", res |-> NoResult]
    ELSE IF v.ty = "none" THEN [out |-> "AttributeError", res |-> NoResult]
    ELSE IF v.ty = "nosection" THEN [out |-> "TypeError", res |-> NoResult]
    ELSE [out |-> "ok",
          res |-> Result("tuple", [k \in 1..Len(v.items) |-> CastObject(v.items[k])])]

\* get() and get_live() called by the recipe: they return what they got.
Returned(r) ==
    [out |-> IF r.ty = "raise" THEN "raise" ELSE "ok",
     res |-> IF r.ty \in {"none", "raise"} THEN NoResult ELSE Result(r.ty, r.items)]

Get(r) ==
    Observe("get", [NoArgs EXCEPT !.reply = r], Returned(r).out, Returned(r).res, <<>>)

\* get_live taking the channel count from the snapshot it read.
GetLive_RefreshLen(r) ==
    /\ dOp' = "get_live"
    /\ dArgs' = [NoArgs EXCEPT !.reply = r]
    /\ dBefore' = commands
    /\ dOut' = Returned(r).out
    /\ dResult' = Returned(r).res
    /\ dSent' = <<>>
    /\ dLen' = IF r.ty = "list" /\ Len(r.items) > 0 THEN Len(r.items) ELSE dLen
    /\ UNCHANGED <<dClass, dBase, command_delay, has_sim_values, simSetTrue, commands>>
    /\ UNCHANGED <<socketVars, pidVars>>

GetLive(r) ==
    Observe("get_live", [NoArgs EXCEPT !.reply = r], Returned(r).out, Returned(r).res,
            <<>>)

ExtractLiveAsTuple(key, cast, r) ==
    LET x == extract_live_as_tuple(dLen, r, key, cast) IN
    Observe("extract_live_as_tuple",
            [NoArgs EXCEPT !.keys = <<key>>, !.cast = cast, !.reply = r],
            x.out, x.res, <<>>)

ExtractLiveAsTupleOfTuples(keys, cast, r) ==
    LET x == extract_live_as_tuple_of_tuples(dLen, r, keys, cast) IN
    Observe("extract_live_as_tuple_of_tuples",
            [NoArgs EXCEPT !.keys = keys, !.cast = cast, !.reply = r],
            x.out, x.res, <<>>)

GetLiveAndCast(r) ==
    LET x == get_live_and_cast(r) IN
    Observe("get_live_and_cast", [NoArgs EXCEPT !.cast = "class", !.reply = r],
            x.out, x.res, <<>>)

GetStatAndCast(r) ==
    LET x == get_and_cast(r) IN
    Observe("get_stat_and_cast", [NoArgs EXCEPT !.cast = "class", !.reply = r],
            x.out, x.res, <<>>)

GetConfigAndCast(r) ==
    LET x == get_and_cast(r) IN
    Observe("get_config_and_cast", [NoArgs EXCEPT !.cast = "class", !.reply = r],
            x.out, x.res, <<>>)

\* The record flags a caller passes.
Records == {NoneS, PyBool(TRUE), PyBool(FALSE)}

\* The CommandPayload objects handed to send_command: built by to_payload of
\* some device, or by the constructor with any identity.
CommandPayloads ==
    {CommandPayload(id.user_id, id.device_id, "SetValvePosition", "{commands}", r) :
        id \in Idents, r \in Records}

\* Device.to_payload called by the recipe.
ToPayload(action, command, record) ==
    Observe("to_payload",
            [NoArgs EXCEPT !.payload = CommandPayload(Null, Null, action, command, record)],
            "ok", Result("payload", <<to_payload(dBase, action, command, record)>>), <<>>)

\* Device.send_command(payload) with a CommandPayload.
SendCommand(payload) ==
    Observe("send_command", [NoArgs EXCEPT !.payload = payload],
            "ok", NoResult, send_command(payload))

\* Device.update_record(record)
UpdateRecord(record) ==
    Observe("update_record",
            [NoArgs EXCEPT !.payload = CommandPayload(Null, Null, "UpdateRecord", "None", record)],
            "ok", NoResult, send_command(to_payload(dBase, "UpdateRecord", "None", record)))

\* Device.clear_recorded: the bare action payload under its own event.
ClearRecorded ==
    Observe("clear_recorded", NoArgs, "ok", NoResult,
            <<Message(CLEAR_DEVICE_RECORDABLE, generate_action_payload(dBase))>>)

\* The delays a recipe sets, in hundredths of a second.
Delays == {0, 5}

InitDeviceFrom(classes, lens, interfaces) ==
    /\ dClass \in classes
    /\ dBase \in [device_id : {"dev1"}, user_id : {"u1"}, interface : interfaces]
    /\ command_delay = InitialDelay(dBase.interface)
    /\ dResult = NoResult
    /\ dLen \in lens
    /\ has_sim_values = InitialSimFlag(dClass)
    /\ simSetTrue = FALSE
    /\ commands = make_commands(dLen)
    /\ dOp = "none"
    /\ dArgs = NoArgs
    /\ dBefore = commands
    /\ dOut = "ok"
    /\ dSent = <<>>

InitDevice == InitDeviceFrom(Classes, 1..MaxLen, {"Sim"})

\* The recipe builds and fills command arrays.
NextCommands ==
    \/ MakeCommands
    \/ MapCommands
    \/ \E k \in Indices, c \in Cmds : SetCommand(k, c)

\* PeristalticPump.stop(): a stop command for every channel. Each slot of a
\* fresh command array is replaced by make_stop_command(), the array is
\* mapped and sent as one Stop action.
Stop ==
    LET cs == [k \in 1..Len(make_commands(dLen)) |-> make_stop_command] IN
    Observe("stop()", NoArgs, "ok", NoResult,
            send_command(to_payload(dBase, "Stop", [commands |-> map_commands(cs)], NoneS)))

\* PeristalticPump.stop(commands) with the recipe's command array.
StopCommands ==
    Observe("stop(commands)", NoArgs, "ok", NoResult,
            send_command(to_payload(dBase, "Stop", [commands |-> map_commands(commands)],
                                    NoneS)))

\* Status.reverse sending Stopped to Clockwise.
reverse_StartsStopped(status) ==
    IF status = "CounterClockwise" THEN "Clockwise" ELSE "CounterClockwise"

\* Status.reverse
reverse(status) ==
    IF status = "Clockwise" THEN "CounterClockwise"
    ELSE IF status = "CounterClockwise" THEN "Clockwise"
    ELSE status

\* The recipe reverses a direction: status.reverse() on a member of Status.
Reverse(status) ==
    Observe("reverse", [NoArgs EXCEPT !.command = status], "ok",
            Result("Status", <<reverse(status)>>), <<>>)

\* The commands a recipe puts in the array of a pump.
PumpCmds == {make_stop_command, "c1", "c2"}

\* The recipe fills a command array and stops the pump.
NextPump ==
    \/ MakeCommands
    \/ \E k \in 0..(MaxLen - 1), c \in PumpCmds : SetCommand(k, c)
    \/ Stop
    \/ StopCommands
    \/ \E status \in {"Stopped", "Clockwise", "CounterClockwise"} : Reverse(status)

\* The array a recipe injects in the device specification.
SimArray == List(<<PyFloat(2), NoneS, PyFloat(0), PyInt(1)>>)

\* Every operation of one Device object.
NextDevice ==
    \/ MakeCommands
    \/ MapCommands
    \/ \E k \in {0, MaxLen} : SetCommand(k, "c1")
    \/ \E b \in BOOLEAN : SetHasSimValues(b)
    \/ \E v \in Delays : SetCommandDelay(v)
    \/ set_sim_data("_set_sim_data", SimArray, NoneArr, SimArray, PyFloat(3))
    \/ set_sim_values(SimArray, PyFloat(3))
    \/ set_sim_rates_of_change(SimArray, PyFloat(3))
    \/ set_sim_noise(SimArray, PyFloat(3))
    \/ \E r \in GetReplies : Get(r)
    \/ \E r \in LiveReplies : GetLive(r)
    \/ \E r \in LiveReplies, key \in Keys, cast \in Casts : ExtractLiveAsTuple(key, cast, r)
    \/ \E r \in LiveReplies, keys \in KeyTuples, cast \in Casts :
           ExtractLiveAsTupleOfTuples(keys, cast, r)
    \/ \E r \in LiveReplies : GetLiveAndCast(r)
    \/ \E r \in GetReplies : GetStatAndCast(r)
    \/ \E r \in GetReplies : GetConfigAndCast(r)
    \/ \E record \in Records : ToPayload("SetValvePosition", "{commands}", record)
    \/ \E payload \in CommandPayloads : SendCommand(payload)
    \/ \E record \in Records : UpdateRecord(record)
    \/ ClearRecorded

\* The recipe sets the simulation flag and injects simulated data.
NextSim ==
    \/ \E b \in BOOLEAN : SetHasSimValues(b)
    \/ \E a, b, c \in SimArrays, sc \in Scales : set_sim_data("_set_sim_data", a, b, c, sc)
    \/ \E a \in SimArrays, sc \in Scales : set_sim_values(a, sc)
    \/ \E a \in SimArrays, sc \in Scales : set_sim_rates_of_change(a, sc)
    \/ \E a \in SimArrays, sc \in Scales : set_sim_noise(a, sc)

----------------------------------------------------------------------------
(* Specifications *)

InitSocket ==
    /\ pc = [t \in Threads |-> "idle"]
    /\ op = [t \in Threads |-> "get"]
    /\ dev = [t \in Threads |-> [device_id |-> "dev1", user_id |-> "u1"]]
    /\ i = [t \in Threads |-> 0]
    /\ sends = [t \in Threads |-> 0]
    /\ excs = [t \in Threads |-> 0]
    /\ lock = NoThread
    /\ wire = <<>>
    /\ data = [t \in Threads |-> NoFrame]
    /\ lastRx = [t \in Threads |-> "none"]
    /\ result = [t \in Threads |-> Pending]

\* Each specification starts the part it does not follow in one fixed state.
PidIdle == InitPidFrom({PidDefaults})
DeviceIdle == InitDeviceFrom({"Device"}, {1}, {"Sim"})

NextSocket ==
    \/ \E t \in Threads, o \in {"get", "get_live"} : \E d \in DevicesOf(t) : Call(t, o, d)
    \/ \E t \in Threads : Send(t)
    \/ \E t \in Threads : Exhaust(t)
    \/ \E t \in Threads, s \in FrameShapes : Recv(t, s)
    \/ \E t \in Threads : RecvTimeout(t)

InitSpecSocket == InitSocket /\ PidIdle /\ DeviceIdle
SpecSocket == InitSpecSocket /\ [][NextSocket]_vars

\* The same callers on a socket whose send can fail, under a fair scheduler:
\* while some caller can take the lock or is inside recv (which returns within
\* its timeout, settimeout(0.5)), one of them is eventually run. Both callers
\* poll the same device: the lock does not depend on the device polled, and
\* replies addressed to other identities still arrive.
NextGuard ==
    \/ \E t \in Threads, o \in {"get", "get_live"} : \E d \in DevicesOf("t1") : Call(t, o, d)
    \/ \E t \in Threads : Send(t)
    \/ \E t \in Threads : SendFails(t)
    \/ \E t \in Threads : Exhaust(t)
    \/ \E t \in Threads, s \in FrameShapes : Recv(t, s)
    \/ \E t \in Threads : RecvTimeout(t)

InitSpecGuard == InitSocket /\ PidIdle /\ DeviceIdle
SpecGuard ==
    /\ InitSpecGuard
    /\ [][NextGuard]_vars
    /\ WF_vars(\E t \in Threads :
                    \/ Send(t) \/ SendFails(t)
                    \/ (\E s \in FrameShapes : Recv(t, s)) \/ RecvTimeout(t))

InitSpecPid == InitSocket /\ InitPid /\ DeviceIdle
SpecPid == InitSpecPid /\ [][NextPid]_vars

\* No Pid has been constructed yet.
InitSpecPidInit == InitSocket /\ PidIdle /\ DeviceIdle
SpecPidInit == InitSpecPidInit /\ [][NextPidInit]_vars

\* A Pid(setpoint) without schedules.
InitSpecSchedule == InitSocket /\ PidIdle /\ DeviceIdle
SpecSchedule == InitSpecSchedule /\ [][NextSchedule]_vars

\* A Pid as constructed, before any schedule is added.
InitSpecRoundTrip == InitSocket /\ InitPidFrom(RoundTripPids) /\ DeviceIdle
SpecRoundTrip == InitSpecRoundTrip /\ [][NextRoundTrip]_vars

InitSpecDevice == InitSocket /\ PidIdle /\ InitDevice
SpecCommands == InitSpecDevice /\ [][NextCommands]_vars

SpecSim == InitSpecDevice /\ [][NextSim]_vars

\* One PeristalticPump.
InitSpecPump == InitSocket /\ PidIdle /\ InitDeviceFrom({"PeristalticPump"}, 1..MaxLen, {"Sim"})
SpecPump == InitSpecPump /\ [][NextPump]_vars

\* One Device object on the simulator or on a hardware bus.
InitSpecOneDevice ==
    InitSocket /\ PidIdle /\ InitDeviceFrom({"Device"}, 1..MaxLen, Interfaces)
SpecDevice == InitSpecOneDevice /\ [][NextDevice]_vars

----------------------------------------------------------------------------
(* Claims about Device.get / Device.get_live (SpecSocket) *)

\* The request a caller sent in its current attempt.
CurrentTag(t) == [thr |-> t, n |-> sends[t]]

Accepted(t) == pc[t] = "done" /\ result[t] # None

\* C1: get() and get_live() make at most SOCKET_TX_ATTEMPTS send/receive
\* attempts, whatever the socket delivers: an attempt that ends in a read
\* timeout or a JSON decode failure counts against the budget like any other.
C1_AtMostBudgetSends ==
    \A t \in Threads : sends[t] <= SOCKET_TX_ATTEMPTS

\* C5: at most one caller at a time is between sending its request and
\* finishing its receive, and that caller holds the lock.
C5_OneExchangeAtATime ==
    /\ \A t, u \in Threads : pc[t] = "sent" /\ pc[u] = "sent" => t = u
    /\ \A t \in Threads : pc[t] = "sent" => lock = t

\* C5 witness: one caller is inside its exchange while another one, with
\* budget left, is at the loop test waiting for the lock.
C5_Witness ==
    \E t, u \in Threads :
        /\ t # u
        /\ pc[t] = "sent"
        /\ pc[u] = "loop" /\ InBudget(i[u])

\* C6: a reply is returned only if its event is the expected one and its
\* identity (device_id, user_id) is this device's; a reply of the expected
\* event addressed to another device or owner is not returned and costs one
\* attempt: the call goes back to the loop test with i incremented.
C6_OnlyOwnReplies ==
    [][\A t \in Threads :
        /\ (Accepted(t))' =>
              /\ data'[t].kind = "pair"
              /\ data'[t].event = (IF op'[t] = "get" THEN GET_DEVICE ELSE GET_DEVICE_LIVE)
              /\ data'[t].base.device_id = dev'[t].device_id
              /\ data'[t].base.user_id = dev'[t].user_id
              /\ result'[t].kind = (IF op'[t] = "get" THEN "device" ELSE "live")
        /\ (lastRx[t] = "none" /\ lastRx'[t] = "foreign") =>
              /\ pc'[t] = "loop"
              /\ i'[t] = i[t] + 1
              /\ result'[t] = Pending
     ]_vars

\* C6 witness: one caller has returned a reply addressed to its device, and
\* another has just rejected a reply addressed to another identity.
C6_Witness ==
    \E t, u \in Threads :
        /\ Accepted(t) /\ lastRx[t] = "mine"
        /\ lastRx[u] = "foreign" /\ i[u] > 0 /\ pc[u] = "loop"

\* C7: when no attempt ends in the except branch, a call whose first k-1
\* replies mismatch and whose k-th matches returns that reply's payload after
\* exactly k sends (k <= SOCKET_TX_ATTEMPTS); a call whose SOCKET_TX_ATTEMPTS
\* replies all mismatch returns None after exactly that many sends; there is
\* never one send more.
C7_ExactlyKSends ==
    \A t \in Threads :
        excs[t] = 0 =>
            /\ sends[t] <= SOCKET_TX_ATTEMPTS
            /\ Accepted(t) =>
                  /\ sends[t] = i[t] + 1
                  /\ result[t].snap = data[t].req
                  /\ lastRx[t] = "mine"
            /\ (pc[t] = "done" /\ result[t] = None) =>
                  /\ sends[t] = SOCKET_TX_ATTEMPTS
                  /\ i[t] = SOCKET_TX_ATTEMPTS

\* C7 witness: two mismatching replies, then a match on the last attempt of
\* the budget; and another caller that got only mismatches.
C7_Witness ==
    \E t, u \in Threads :
        /\ excs[t] = 0 /\ Accepted(t) /\ sends[t] = SOCKET_TX_ATTEMPTS
        /\ excs[u] = 0 /\ pc[u] = "done" /\ result[u] = None

\* C8: whatever the socket delivers, get() and get_live() end by returning a
\* snapshot or None: no exception escapes them.
C8_NoExceptionEscapes ==
    \A t \in Threads : pc[t] # "raised"

\* C9: the reply a caller accepts in an attempt is the reply to the request it
\* sent in that same attempt.
C9_AcceptedReplyIsCurrent ==
    \A t \in Threads : Accepted(t) => data[t].req = CurrentTag(t)

\* A caller is at `with self._socket_lock` with budget left while another
\* caller holds the lock.
Blocked(t) == pc[t] = "loop" /\ InBudget(i[t]) /\ lock \in Threads \ {t}

\* The caller went through `with self._socket_lock`: it is inside its exchange,
\* or its send failed under the lock (the only way from the loop test to an
\* escaping exception).
Entered(t) == pc[t] \in {"sent", "raised"}

----------------------------------------------------------------------------
(* Claims about PidController._update (SpecPid) *)

\* The last operation sent its envelope and got a well-formed reply (an object
\* with a controllers map) that holds no pid for this controller: no entry
\* under its id, or an entry without a pid object.
UpdateNotForMe ==
    /\ pidSent # <<>>
    /\ pidReply.kind = "obj" /\ pidReply.controllers = "map"
    /\ pidReply.mine \in {"absent", "nopid"}

\* C32: a well-formed reply whose controllers map lacks this controller's id,
\* or holds it without a pid object, leaves the local Pid as the operation
\* left it and raises nothing; the local Pid is replaced only from an entry
\* under this controller's own id.
C32_OnlyOwnEntryReplaces ==
    /\ UpdateNotForMe => pid = pidBefore /\ pidOut = "ok"
    /\ (pidSent # <<>> /\ pid # pidBefore) =>
          /\ pidReply.kind = "obj" /\ pidReply.controllers = "map"
          /\ pidReply.mine = "pid"
          /\ pid = PidInit(Keywords(pidReply.pid))

\* C32 witness: the reply carried another controller's pid, different from
\* the local one, and the local Pid is still what the operation made it.
C32_Witness ==
    /\ UpdateNotForMe
    /\ pidReply.mine = "absent"
    /\ pidReply.pid # NoPid /\ pidReply.pid # SerializePid(pid)
    /\ pidOp = "change_setpoint" /\ pid.setpoint = pidArgs.setpoint


\* The last operation sent its envelope and the reply held this controller's
\* id with a pid object.
UpdateSucceeded ==
    /\ pidSent # <<>>
    /\ pidReply.kind = "obj" /\ pidReply.controllers = "map" /\ pidReply.mine = "pid"

\* The last operation sent its envelope and the reply was absent (None) or
\* malformed (not decodable, or not an object with a controllers map).
UpdateGotNothing ==
    /\ pidSent # <<>>
    /\ \/ pidReply.kind \in {"none", "badstr", "nonobj"}
       \/ pidReply.kind = "obj" /\ pidReply.controllers # "map"

\* C2: after an update round trip that succeeds, the local Pid equals the
\* server's returned Pid in every serialized field (enabled,
\* update_interval_ms, setpoint, integral_term, schedule, output_limits).
C2_LocalPidIsServerPid ==
    UpdateSucceeded => SerializePid(pid) = pidReply.pid

\* C3: when the round trip yields an absent or malformed reply, _update raises
\* no exception and leaves the local Pid as it was when the request was sent.
C3_BadReplyIsHarmless ==
    UpdateGotNothing => pidOut \in {"ok", "warned"} /\ pid = pidBefore

\* The gains of the first gain set, read from a local Pid or a serialized one.
Triple(schedule) == <<schedule[1].kp, schedule[1].kd, schedule[1].ki>>

\* C12: after change_parameters(kp=30) on a controller whose gains had kd=10
\* and a successful round trip in which the server returns kp=30, kd=10, ki=0,
\* the local Pid holds the server's triple, as its gain set or as attributes.
C12_LocalGainsAreServerGains ==
    (/\ pidOp = "change_parameters"
     /\ pidArgs = [NoPidArgs EXCEPT !.kp = PyFloat(30)]
     /\ Len(pidBefore.schedule) = 1
     /\ pidBefore.schedule[1].kd = PyFloat(10)
     /\ UpdateSucceeded
     /\ Len(pidReply.pid.schedule) = 1
     /\ Triple(pidReply.pid.schedule) = <<PyFloat(30), PyFloat(10), PyFloat(0)>>)
    => \/ /\ Len(pid.schedule) = 1
          /\ Triple(pid.schedule) = <<PyFloat(30), PyFloat(10), PyFloat(0)>>
       \/ <<pid.kp, pid.kd, pid.ki>> = <<PyFloat(30), PyFloat(10), PyFloat(0)>>

GainNames == {"kp", "ki", "kd", "bias"}

\* C13: the envelope change_parameters sends differs from the envelope the
\* controller would have sent just before the call in exactly the gains that
\* were passed non-null, which carry the new values (stated for a Pid that has
\* a gain set, so that the envelope has gain fields).
C13_EnvelopeCarriesPassedGains ==
    [][(pidOp' = "change_parameters" /\ pidSent' # <<>> /\ Len(pid.schedule) >= 1) =>
        LET before == serialize_update(pidId, pid).pid
            sent == pidSent'[1].pid
        IN  /\ sent.enabled = before.enabled
            /\ sent.update_interval_ms = before.update_interval_ms
            /\ sent.setpoint = before.setpoint
            /\ sent.integral_term = before.integral_term
            /\ sent.output_limits = before.output_limits
            /\ Len(sent.schedule) = Len(before.schedule)
            /\ \A k \in 1..Len(before.schedule) :
                  /\ sent.schedule[k].error = before.schedule[k].error
                  /\ \A g \in GainNames :
                        sent.schedule[k][g] =
                            IF pidArgs'[g].ty # "none" THEN pidArgs'[g]
                            ELSE before.schedule[k][g]
      ]_vars

\* The server applied the last update as sent and returned its Pid.
Echoed ==
    /\ UpdateSucceeded
    /\ pidReply.pid = pidSent[1].pid

\* C14: disable() on an already-disabled controller, with a server that
\* applies each update as sent, sends enabled = false again with every other
\* transmitted field the same as in the previous call, and leaves the local
\* enabled flag false.
C14_DisableIdempotent ==
    [][(/\ pidOp = "disable" /\ Echoed /\ pid.enabled = PyBool(FALSE)
        /\ pidOp' = "disable" /\ Echoed') =>
            /\ pidSent'[1].pid.enabled = PyBool(FALSE)
            /\ pid'.enabled = PyBool(FALSE)
            /\ pidSent'[1] = pidSent[1]
      ]_vars

UpdateOps == {"change_setpoint", "enable", "disable", "change_parameters", "clear_integral"}

\* C19: once a registered controller has been deleted, every later update
\* operation on it fails instead of sending an update for that id.
C19_NoUpdateAfterDelete ==
    (pidDeleted /\ pidOp \in UpdateOps) =>
        /\ pidSent = <<>>
        /\ pidOut \notin {"ok", "warned"}

\* C20: on an assigned controller, each call of change_setpoint, enable,
\* disable or clear_integral applies its local mutation first and then makes
\* exactly one update round trip, whose envelope carries the mutated value.
C20_MutateThenOneRoundTrip ==
    (pidAq /\ pidOp \in UpdateOps \ {"change_parameters"}) =>
        /\ Len(pidSent) = 1
        /\ pidSent[1].id = pidId
        /\ pidSent[1].pid = SerializePid(pidBefore)
        /\ pidOp = "change_setpoint" =>
              /\ pidSent[1].pid.setpoint = pidArgs.setpoint
              /\ pidArgs.clear => pidSent[1].pid.integral_term = PyFloat(0)
        /\ pidOp = "clear_integral" => pidSent[1].pid.integral_term = PyFloat(0)
        /\ pidOp = "enable" => pidSent[1].pid.enabled = PyBool(TRUE)
        /\ pidOp = "disable" => pidSent[1].pid.enabled = PyBool(FALSE)

\* C20 as stated, for every call, also on a controller that was never
\* assigned a client.
C20_EveryCallOneRoundTrip ==
    (pidOp \in UpdateOps \ {"change_parameters"}) =>
        /\ Len(pidSent) = 1
        /\ pidSent[1].pid = SerializePid(pidBefore)

\* C20 witness: enable on a disabled controller, the envelope carrying
\* enabled = true, and the server's reply then leaving the local flag set.
C20_Witness ==
    /\ pidAq /\ pidOp = "enable" /\ Len(pidSent) = 1
    /\ pidSent[1].pid.enabled = PyBool(TRUE)
    /\ Echoed /\ pid.enabled = PyBool(TRUE)

\* C21: change_setpoint(value) with clear_integral = false changes only the
\* setpoint before synchronising: the envelope carries the new setpoint, and
\* its integral_term, enabled, update_interval_ms, schedule and output_limits
\* are the local values held before the call.
C21_OnlySetpointChanges ==
    [][(pidOp' = "change_setpoint" /\ ~pidArgs'.clear /\ pidSent' # <<>>) =>
        LET before == SerializePid(pid)
            sent == pidSent'[1].pid
        IN  /\ sent.setpoint = pidArgs'.setpoint
            /\ sent.integral_term = before.integral_term
            /\ sent.enabled = before.enabled
            /\ sent.update_interval_ms = before.update_interval_ms
            /\ sent.schedule = before.schedule
            /\ sent.output_limits = before.output_limits
      ]_vars

\* C21 witness: change_setpoint(7.0) sent from a controller whose integral
\* term was 2.0, the envelope carrying 7.0 and 2.0.
C21_Witness ==
    /\ pidOp = "change_setpoint" /\ ~pidArgs.clear /\ Len(pidSent) = 1
    /\ pidBefore.integral_term = PyFloat(2)
    /\ pidSent[1].pid.integral_term = PyFloat(2)
    /\ pidSent[1].pid.setpoint = PyFloat(7)

\* C22: constructing a PidController, assign() and set_id() send nothing:
\* a new controller has sent no message, and a step of assign or set_id sends
\* none and changes only the client reference (assign) or the id (set_id);
\* name, input, output and pid are unchanged.
C22_BindingSendsNothing ==
    /\ (pidSent = <<>> /\ pidReply = NoResponse /\ ~pidAq /\ pidId = NoId)
    /\ [][(pidOp' \in {"assign", "set_id"}) =>
            /\ pidSent' = pidSent
            /\ pidReply' = pidReply
            /\ pid' = pid
            /\ pidFixed' = pidFixed
            /\ pidOp' = "assign" => pidId' = pidId
            /\ pidOp' = "set_id" => pidAq' = pidAq
         ]_vars

\* C22 witness: a controller assigned and given its id, nothing sent so far.
C22_Witness ==
    /\ pidOp = "set_id" /\ pidAq /\ pidId # NoId
    /\ pidSent = <<>> /\ pidReply = NoResponse
    /\ pidFixed = Fixed

\* C23: every update a PidController sends carries exactly one controller
\* entry, and the entry's id is the id the server assigned: no update is sent
\* while the id is still None.
C23_UpdateCarriesAssignedId ==
    pidSent # <<>> =>
        /\ Len(pidSent) = 1
        /\ pidSent[1].id # NoId
        /\ pidSent[1].id \in ControllerIds

----------------------------------------------------------------------------
(* Claims about the Pid constructor (SpecPidInit) *)

\* C15 as stated: every constructed Pid has enabled = false, whatever the
\* arguments.
C15_AlwaysDisabled ==
    pidOp = "Pid" => pid.enabled = PyBool(FALSE)

\* C15 amended: a constructed Pid has enabled = true exactly when the
\* constructor was given the keyword enabled=True; otherwise enabled = false.
C15_DisabledUnlessAsked ==
    pidOp = "Pid" =>
        /\ pid.enabled \in {PyBool(FALSE), PyBool(TRUE)}
        /\ pid.enabled = PyBool(TRUE) <=> pidArgs.enabled = PyBool(TRUE)

\* C15 witness: a Pid constructed with other keywords, or with an enabled
\* keyword that is no bool, is disabled.
C15_Witness ==
    /\ pidOp = "Pid"
    /\ pidArgs.enabled = PyInt(1)
    /\ pidArgs.integral_term = PyFloat(25)
    /\ pid.enabled = PyBool(FALSE)

\* C16: a Pid constructed with only a setpoint exposes every parameter with
\* its default, and reading each of them succeeds.
C16_DefaultsReadable ==
    (pidOp = "Pid" /\ pidArgs = KwAbsent) =>
        /\ pid.enabled = PyBool(FALSE)
        /\ pid.update_interval_ms = PyInt(1000)
        /\ pid.setpoint = pidArgs.setpoint
        /\ pid.bias = PyFloat(0) /\ pid.kp = PyFloat(0)
        /\ pid.ki = PyFloat(0) /\ pid.kd = PyFloat(0)
        /\ pid.p_limit = NoneS /\ pid.i_limit = NoneS /\ pid.d_limit = NoneS
        /\ pid.integral_term = PyFloat(0)
        /\ pid.delta_limits = NonePair
        /\ pid.control_bounds = Pair("tuple", NoneS, NoneS)
        /\ pid.output_limits = Pair("tuple", NoneS, NoneS)
        /\ pid.dead_zone = NonePair

\* C17: for every recognised parameter passed as a keyword with a value of
\* the type test_custom_values passes, the attribute of that name equals the
\* value passed.
C17_KeywordsAreSet ==
    pidOp = "Pid" =>
        \A k \in CustomKeys :
            pidArgs[k].ty = KwCustom[k].ty => pid[k] = pidArgs[k]

\* C18: a keyword that is no Pid parameter is dropped: construction succeeds,
\* the Pid has no attribute of that name, and every other field is what it is
\* without the keyword.
C18_UnknownKeywordDropped ==
    [][(/\ pidOp = "Pid" /\ pidOp' = "Pid"
        /\ pidArgs.invalid_attribute.ty = "absent"
        /\ pidArgs' = [pidArgs EXCEPT !.invalid_attribute = PyFloat(5)]) =>
            /\ pidOut' = "ok"
            /\ pid'.invalid_attribute.ty = "absent"
            /\ pid' = pid
      ]_vars

\* C18 witness: a Pid constructed with invalid_attribute=5.0 and a keyword
\* the constructor knows.
C18_Witness ==
    /\ pidOp = "Pid" /\ pidOut = "ok"
    /\ pidArgs.invalid_attribute = PyFloat(5)
    /\ pidArgs.integral_term = PyFloat(25)
    /\ pid.integral_term = PyFloat(25)
    /\ pid.invalid_attribute.ty = "absent"

\* The types valid_attributes declares for the keyword k of each constructor.
C36_Declared(k) ==
    IF k = "enabled" THEN {"bool"}
    ELSE IF k = "update_interval_ms" THEN {"int"}
    ELSE IF k = "output_limits" THEN {"tuple"}
    ELSE IF k \in ConstraintKeys THEN {"tuple", "none"}
    ELSE IF k \in LimitKeys THEN {"float", "none"}
    ELSE {"float"}

\* The keyword was given and its value has none of the declared types.
C36_WrongType(kw, k) == kw[k].ty \notin C36_Declared(k) \cup {"absent"}

\* C36: the Controller, ControllerSchedule and Pid constructors accept a
\* recognised keyword only when its value has the declared type: with a value
\* of another type the call raises nothing and the field keeps its default.
C36_WrongTypeKeepsDefault ==
    /\ pidOp = "Pid" =>
          /\ pidOut = "ok"
          /\ \A k \in {"enabled", "update_interval_ms", "setpoint", "integral_term",
                        "output_limits"} :
                C36_WrongType(pidArgs, k) => pid[k] = PidDefaults[k]
    /\ pidOp = "Schedule" =>
          /\ pidOut = "ok"
          /\ \A k \in FloatKeys \cup LimitKeys :
                C36_WrongType(pidArgs.controller, k) =>
                    pid.schedule[1][k] = ControllerDefaults[k]
          /\ \A k \in ConstraintKeys :
                C36_WrongType(pidArgs.schedule, k) => pid.schedule[1][k] = NonePair

----------------------------------------------------------------------------
(* Claims about gain schedules (SpecSchedule) *)

\* C24: in the serialized Pid every optional limit of a gain set is a
\* two-element array, the unbounded form [null, true] exactly when the field
\* is None; every other value, 0.0 included, is sent as [value, null].
C24_LimitsBoundedUnlessNone ==
    pidOp = "serialize" =>
        \A k \in 1..Len(pid.schedule) : \A l \in LimitKeys :
            LET x == pid.schedule[k][l]
                a == pidJson.schedule[k][l]
            IN  /\ a.ty = "list"
                /\ x.ty = "none" => a = Pair("list", NoneS, PyBool(TRUE))
                /\ x.ty # "none" => a = Pair("list", x, NoneS)

\* Every interval the Schedule object e defines contains the current value.
C30_Satisfied(e, cur) ==
    \A c \in ConstraintKeys :
        e[c].ty # "none" => (e[c].lo.v <= cur[c] /\ cur[c] <= e[c].hi.v)

C30_Unconstrained(e) == \A c \in ConstraintKeys : e[c].ty = "none"

\* C30: the schedule list is in insertion order (add_schedule puts the new
\* schedule last), and the active schedule is the first of the list whose
\* every defined interval contains the current value; an unconstrained
\* schedule matches whatever the values; none is active when none matches.
\* For [A: error in (-50, 50)], [B: unconstrained], error 0 selects A and
\* error 1000 selects B.
C30_FirstMatchInOrder ==
    /\ [][pidOp' = "add_schedule" =>
            pid'.schedule = Append(pid.schedule, pidArgs'.schedule)]_vars
    /\ [](pidOp = "select" =>
            LET L == pid.schedule
                a == selection.active
            IN  /\ a \in 0..Len(L)
                /\ a = 0 => \A k \in 1..Len(L) : ~C30_Satisfied(L[k], selection)
                /\ a > 0 =>
                      /\ C30_Satisfied(L[a], selection)
                      /\ \A j \in 1..(a - 1) : ~C30_Satisfied(L[j], selection)
                /\ \A k \in 1..Len(L) : C30_Unconstrained(L[k]) => (a > 0 /\ a <= k)
                /\ (Len(L) = 2 /\ L[1] = ScheduleA /\ C30_Unconstrained(L[2])) =>
                      /\ selection.error = 0 => a = 1
                      /\ selection.error = 1000 => a = 2)

\* C30 witness: with [A: error in (-50, 50)], [B: unconstrained] and error
\* 1000 the second schedule is the active one.
C30_Witness ==
    /\ pidOp = "select"
    /\ Len(pid.schedule) = 2 /\ pid.schedule[1] = ScheduleA
    /\ C30_Unconstrained(pid.schedule[2])
    /\ selection.error = 1000 /\ selection.active = 2

\* The serialized entry x holds the three intervals of the schedule e (a tuple
\* reads back from JSON as a list) and the gain fields of its controller.
C33_EntryOf(x, e) ==
    /\ \A c \in ConstraintKeys :
          /\ x[c].ty = (IF e[c].ty = "tuple" THEN "list" ELSE e[c].ty)
          /\ x[c].lo = e[c].lo /\ x[c].hi = e[c].hi
    /\ \A g \in FloatKeys : x[g] = e[g]

\* C33: the schedule list keeps insertion order. add_schedule leaves the
\* serialized entries already there in place and puts the new schedule's entry
\* after them; Pid.serialize yields one entry per schedule of the list, in
\* list order, each with that schedule's process, error and control intervals
\* and its controller's gain fields.
C33_SerializedInInsertionOrder ==
    [][/\ pidOp' = "add_schedule" =>
            LET old == SerializePid(pid).schedule
                new == SerializePid(pid').schedule
            IN  /\ Len(new) = Len(old) + 1
                /\ SubSeq(new, 1, Len(old)) = old
                /\ C33_EntryOf(new[Len(new)], pidArgs'.schedule)
       /\ pidOp' = "serialize" =>
            /\ Len(pidJson'.schedule) = Len(pid.schedule)
            /\ \A k \in 1..Len(pid.schedule) :
                  C33_EntryOf(pidJson'.schedule[k], pid.schedule[k])
      ]_vars

\* C33 witness: two different schedules were added, the one with an error
\* interval first, and the Pid was serialized.
C33_Witness ==
    /\ pidOp = "serialize" /\ pidJson.made
    /\ Len(pid.schedule) = 2
    /\ pid.schedule[1] = ScheduleA /\ pid.schedule[2] # ScheduleA
    /\ pidJson.schedule[1].error.ty = "list"
    /\ pidJson.schedule[2].kp = pid.schedule[2].kp

\* C35: Pid serialization round-trips through the constructor: for every Pid
\* p, Pid(**p.serialize()).serialize() equals p.serialize().
C35_SerializeRoundTrips ==
    pidOp = "Pid(**serialize)" => SerializePid(pid) = SerializePid(pidBefore)

----------------------------------------------------------------------------
(* Claims about command arrays (SpecCommands) *)

\* C4: set_command(commands, i, cmd) on an array of length L succeeds and
\* writes slot i iff 0 <= i < L; for every other i it reports an error and
\* leaves the array unmodified (Device.set_command and PinchValve.set_command).
C4_SetCommandInRangeOnly ==
    dOp = "set_command" =>
        LET k == dArgs.index
            inRange == 0 <= k /\ k < Len(dBefore)
        IN  /\ (dOut = "ok") <=> inRange
            /\ inRange => commands = [dBefore EXCEPT ![k + 1] = dArgs.command]
            /\ ~inRange => commands = dBefore

\* C25: a command array always has channel-count slots: make_commands
\* returns that many, no set_command call (succeeding or failing) changes the
\* length, and map_commands returns an array of the same length whose slot is
\* null exactly when the input slot is None.
C25_ArrayHasChannelCountSlots ==
    /\ Len(commands) = dLen
    /\ dOp = "set_command" => Len(commands) = Len(dBefore)
    /\ dOp = "map_commands" =>
          /\ Len(dResult.items) = Len(commands)
          /\ \A k \in 1..Len(commands) :
                (dResult.items[k] = NoneCmd) <=> (commands[k] = NoneCmd)

\* C25 witness: map_commands on an array of three slots holding a
\* StopCommand, whose to_command is 0, an empty slot and a StartCommand.
C25_Witness ==
    /\ dOp = "map_commands" /\ dLen = 3
    /\ commands = <<"c2", NoneCmd, "c1">>
    /\ dResult.items = <<to_command("c2"), NoneCmd, to_command("c1")>>

----------------------------------------------------------------------------
(* Claims about the operations of one Device (SpecDevice) *)

\* C26: no Device operation changes the device id, the owner id, the
\* interface or the channel count; the dispatch delay and the simulation flag
\* change only in a call of their setters.
C26_IdentityNeverChanges ==
    [][/\ dBase' = dBase
       /\ dLen' = dLen
       /\ command_delay' # command_delay => dOp' = "command_delay"
       /\ has_sim_values' # has_sim_values => dOp' = "has_sim_values"
      ]_vars

\* C26 witness: a device on a hardware bus whose delay and simulation flag
\* were set, after a live projection.
C26_Witness ==
    /\ dOp = "extract_live_as_tuple" /\ dOut = "ok"
    /\ dBase = [device_id |-> "dev1", user_id |-> "u1", interface |-> "Can"]
    /\ command_delay = 5 /\ has_sim_values
    /\ dLen = MaxLen

Projections ==
    {"extract_live_as_tuple", "extract_live_as_tuple_of_tuples", "get_live_and_cast",
     "get_stat_and_cast", "get_config_and_cast"}

\* C27: when get_live() (or get(), for the stat and config projections)
\* returns None after exhausting its attempts, the projection built on it
\* does not raise and returns None or an empty tuple.
C27_ExhaustionPropagatesAsNone ==
    (dOp \in Projections /\ dArgs.reply = NoneReply) =>
        /\ dOut = "ok"
        /\ dResult = NoResult \/ dResult.items = <<>>

\* cast(x) as the claim reads it: the raw value without a cast, the float of
\* the same number with float.
C28_Cast(cast, x) == IF cast = "None" THEN x ELSE [ty |-> "float", v |-> x.v]

\* C28: given a live snapshot with one entry per channel (each holding the
\* keys asked for), extract_live_as_tuple returns channel-count entries, entry
\* i being cast(live[i][key]), in channel order; extract_live_as_tuple_of_tuples
\* returns channel-count tuples, each listing the keys' values in key order.
C28_ProjectionPerChannel ==
    LET live == dArgs.reply.items
        keys == dArgs.keys
        given == /\ dArgs.reply.ty = "list"
                 /\ Len(live) = dLen
                 /\ \A k \in 1..dLen : \A j \in 1..Len(keys) :
                       live[k][keys[j]].ty # "absent"
    IN  /\ (dOp = "extract_live_as_tuple" /\ given) =>
              /\ dOut = "ok" /\ dResult.ty = "tuple"
              /\ Len(dResult.items) = dLen
              /\ \A k \in 1..dLen :
                    dResult.items[k] = C28_Cast(dArgs.cast, live[k][keys[1]])
        /\ (dOp = "extract_live_as_tuple_of_tuples" /\ given) =>
              /\ dOut = "ok" /\ dResult.ty = "tuple"
              /\ Len(dResult.items) = dLen
              /\ \A k \in 1..dLen :
                    /\ Len(dResult.items[k]) = Len(keys)
                    /\ \A j \in 1..Len(keys) :
                          dResult.items[k][j] = C28_Cast(dArgs.cast, live[k][keys[j]])

\* C28 witness: three channels, keys ("t", "p") cast to float; the third
\* tuple is (13.0, 3.0).
C28_Witness ==
    /\ dOp = "extract_live_as_tuple_of_tuples" /\ dOut = "ok" /\ dLen = 3
    /\ dArgs.keys = <<"t", "p">> /\ dArgs.cast = "float"
    /\ Len(dResult.items) = 3
    /\ dResult.items[3] = <<PyFloat(13), PyFloat(3)>>

\* C29: the device-action payload sent for a CommandPayload carries the
\* user_id, device_id, action and command given at construction (the device's
\* own identity when to_payload built it), and the record key exactly when
\* the record flag is not None: false is sent, None is left out.
C29_PayloadCarriesConstruction ==
    /\ (dOp \in {"send_command", "update_record"} \cup SimOps /\ dOut = "ok") =>
          LET m == dSent[1]
              q == dArgs.payload
              own == dOp # "send_command"
          IN  /\ Len(dSent) = 1
              /\ m.event = DEVICE_ACTION
              /\ m.user_id = (IF own THEN dBase.user_id ELSE q.user_id)
              /\ m.device_id = (IF own THEN dBase.device_id ELSE q.device_id)
              /\ dOp \in SimOps => m.action = "SetSimValues" /\ m.record.ty = "absent"
              /\ dOp \notin SimOps =>
                    /\ m.action = q.action
                    /\ m.command = q.command
                    /\ (m.record.ty # "absent") <=> (q.record.ty # "none")
                    /\ q.record.ty # "none" => m.record = q.record
    /\ dOp = "to_payload" =>
          dResult.items[1] =
              [dArgs.payload EXCEPT !.user_id = dBase.user_id,
                                    !.device_id = dBase.device_id]

\* C29 witness: a CommandPayload built for another owner with record = False
\* was sent as built, record: false included.
C29_Witness ==
    /\ dOp = "send_command" /\ Len(dSent) = 1
    /\ dArgs.payload.user_id = "u2" /\ dArgs.payload.record = PyBool(FALSE)
    /\ dSent[1].user_id = "u2" /\ dSent[1].record = PyBool(FALSE)
    /\ dSent[1].action = "SetValvePosition"

----------------------------------------------------------------------------
(* Claims about simulation injection (SpecSim) *)

\* C10: a simulation-injection call on a device whose has_sim_values flag is
\* false raises and sends nothing; and the flag is false unless a subclass
\* constructor or the setter made it true.
C10_NoSimulationWithoutFlag ==
    /\ (dOp \in SimOps /\ ~has_sim_values) => dOut = "Warning" /\ dSent = <<>>
    /\ has_sim_values => dClass \in SimClasses \/ simSetTrue

\* C10 witness: a simulation call was made on a device without the flag.
C10_Witness ==
    dOp \in SimOps /\ ~has_sim_values /\ dOut = "Warning"

\* What the claim says is transmitted for channel k (1-based) of array a:
\* null when the array is absent or its entry is None (or not there), the
\* entry times scale otherwise.
C11_Expected(a, k, scale) ==
    IF a.ty = "none" \/ k > Len(a.items) THEN [null |-> TRUE, v |-> 0]
    ELSE IF a.items[k].ty = "none" THEN [null |-> TRUE, v |-> 0]
    ELSE [null |-> FALSE, v |-> a.items[k].v * scale.v]

C11_Sent(x) == [null |-> x.ty = "none", v |-> x.v]

\* C11: on a device that supports simulation, the payload _set_sim_data sends
\* has one triple per channel; each position is null when its array is absent
\* or its entry is None, and entry * scale otherwise (0 is sent as 0).
C11_SimPayloadScaled ==
    (dOp \in SimOps /\ dOut = "ok") =>
        /\ Len(dSent) = 1
        /\ dSent[1].action = "SetSimValues"
        /\ Len(dSent[1].command) = dLen
        /\ \A k \in 1..dLen :
              /\ C11_Sent(dSent[1].command[k][1]) = C11_Expected(dArgs.values, k, dArgs.scale)
              /\ C11_Sent(dSent[1].command[k][2]) = C11_Expected(dArgs.roc, k, dArgs.scale)
              /\ C11_Sent(dSent[1].command[k][3]) = C11_Expected(dArgs.noise, k, dArgs.scale)

\* C11 witness: a payload was sent for a call with an absent array, an array
\* holding None and 0 in the device's channels, and a scale other than 1.
C11_Witness ==
    /\ dOp = "_set_sim_data" /\ dOut = "ok" /\ dLen >= 2
    /\ dArgs.roc.ty = "none"
    /\ dArgs.values.ty = "list" /\ Len(dArgs.values.items) >= 2
    /\ dArgs.values.items[1].ty = "none"
    /\ dArgs.values.items[2] = PyInt(0)
    /\ dArgs.noise.ty = "list" /\ Len(dArgs.noise.items) >= 1
    /\ dArgs.noise.items[1] = PyFloat(2)
    /\ dArgs.scale = PyFloat(3)
    /\ dSent[1].command[1][3].v = 6
    /\ dSent[1].command[2][1] # NoneS

\* The arrays of the last simulation call, in the order of a triple.
C34_Arrays == <<dArgs.values, dArgs.roc, dArgs.noise>>

\* C34: the payload _set_sim_data sends holds exactly channel-count triples
\* whatever the lengths of the three arrays: a channel beyond the end of a
\* shorter array gets null for that quantity, and a longer array raises
\* nothing, its entries beyond the channel count being left out.
C34_OneTriplePerChannel ==
    (dOp \in SimOps /\ has_sim_values) =>
        /\ dOut = "ok"
        /\ Len(dSent) = 1
        /\ Len(dSent[1].command) = dLen
        /\ \A k \in 1..dLen :
              /\ Len(dSent[1].command[k]) = 3
              /\ \A q \in 1..3 :
                    k > Len(C34_Arrays[q].items) => dSent[1].command[k][q] = NoneS

\* C34 witness: on a device of more than two channels, a call whose values
\* array is shorter than the channel count and whose noise array is longer:
\* the last channel has null for the value and a number for the noise.
C34_Witness ==
    /\ dOp = "_set_sim_data" /\ dOut = "ok" /\ dSent # <<>>
    /\ Len(dArgs.values.items) > 0 /\ Len(dArgs.values.items) < dLen
    /\ Len(dArgs.noise.items) > dLen
    /\ Len(dSent[1].command) = dLen
    /\ dSent[1].command[dLen][1] = NoneS
    /\ dSent[1].command[dLen][3] # NoneS

C38_ReverseIsInvolution ==
    dOp = "reverse" =>
        LET s == dArgs.command
            r == dResult.items[1]
        IN  /\ s = "Clockwise" => r = "CounterClockwise"
            /\ s = "CounterClockwise" => r = "Clockwise"
            /\ s = "Stopped" => r = "Stopped"
            /\ reverse(r) = s

\* C38 witness: Stopped was reversed and came back as Stopped.
C38_Witness ==
    /\ dOp = "reverse" /\ dArgs.command = "Stopped"
    /\ dResult = Result("Status", <<"Stopped">>)

====
